---- MODULE Spec2Model ----
(***************************************************************************)
(* KeyBlast: the asynchronous macro execution engine (src/src/execution.rs)*)
(* as a state machine.  One run: start_execution has returned, the worker  *)
(* thread (execution_worker) paces the macro's segments into an unbounded  *)
(* channel, the holder of the ExecutionHandle may stop() and join(), and   *)
(* the holder of the Receiver may try_recv() or drop it.                   *)
(***************************************************************************)
EXTENDS Integers, Sequences, FiniteSets, TLC

\* ------------------------------------------------------------------ bounds
\* Longest macro (number of segments handed to start_execution).
MaxSegs == 2
\* stop() calls are counted up to this number (the counter saturates there;
\* further calls are still possible).
MaxStops == 2

\* ------------------------------------------------------- MacroSegment data
\* injection.rs MacroSegment: Text(String) | SpecialKey(Key) | Delay(u64) |
\* KeyDown(Key) | KeyUp(Key) | Paste.  A String is a sequence of characters.
Text(s) == [type |-> "Text", text |-> s]
SpecialKey(k) == [type |-> "SpecialKey", key |-> k]
Delay(ms) == [type |-> "Delay", ms |-> ms]
KeyDown(k) == [type |-> "KeyDown", key |-> k]
KeyUp(k) == [type |-> "KeyUp", key |-> k]
Paste == [type |-> "Paste"]

\* execution.rs ExecutionCommand: Inject(MacroSegment) | Complete | Cancelled
Inject(seg) == [cmd |-> "Inject", seg |-> seg]
Complete == [cmd |-> "Complete"]
Cancelled == [cmd |-> "Cancelled"]

IsText(seg) == seg.type = "Text"
IsDelay(seg) == seg.type = "Delay"
IsInject(c) == c.cmd = "Inject"
IsTerminal(c) == c.cmd \in {"Complete", "Cancelled"}

\* ------------------------------------------------------------- the inputs
\* Segments a macro is drawn from: a two-character text, an empty text, a
\* special key, a long Delay (three slices) and a zero Delay.
SegmentChoices ==
    { Text(<<"a", "b">>), Text(<<>>), SpecialKey("Return"), Delay(120),
      Delay(0) }

\* Pacing delays: bulk (0) and a delay longer than one slice.
DelayChoices == {0, 70}

RECURSIVE SeqsUpTo(_, _)
SeqsUpTo(S, n) ==
    IF n = 0 THEN {<<>>}
    ELSE LET shorter == SeqsUpTo(S, n - 1)
         IN  shorter \cup { Append(q, x) : q \in shorter, x \in S }

Macros == SeqsUpTo(SegmentChoices, MaxSegs)

\* ------------------------------------------------------------ pure helpers
Min(a, b) == IF a < b THEN a ELSE b

\* The slice length of thread::sleep inside cancellable_sleep (u64 ms).
SliceMs == 50

\* execution_worker lines 146-161: with delay_ms > 0 every Text becomes one
\* single-character Text per character; everything else is kept.
ExpandSegment(seg) ==
    IF IsText(seg)
    THEN [k \in 1..Len(seg.text) |-> Text(<<seg.text[k]>>)]
    ELSE <<seg>>

RECURSIVE FlatMap(_)
FlatMap(segs) ==
    IF segs = <<>> THEN <<>>
    ELSE ExpandSegment(Head(segs)) \o FlatMap(Tail(segs))

ExpandKeepWhole(segs, d) == segs

ExpandAlways(segs, d) == FlatMap(segs)

Expand(segs, d) == IF d > 0 THEN FlatMap(segs) ELSE segs

\* cancellable_sleep line 202: check_interval = 50.min(ms)
CheckIntervalWhole(ms) == ms

CheckInterval(ms) == Min(SliceMs, ms)

\* (the subtraction left out)
SaturatingSub1Keep(n) == n

\* line 188: i < segment_count.saturating_sub(1)
SaturatingSub1(n) == IF n > 0 THEN n - 1 ELSE 0

NeedsPacingAlways(d, idx, count) == d > 0

NeedsPacing(d, idx, count) == d > 0 /\ idx < SaturatingSub1(count)

\* crossbeam unbounded(): a FIFO; send appends and never blocks.
ChanSendFront(c, cmd) == <<cmd>> \o c

ChanSend(c, cmd) == Append(c, cmd)

ChanFullAtOne(c) == Len(c) >= 1

ChanFull(c) == FALSE

\* ------------------------------------------------------------------- state
VARIABLES
    segments,       \* start_execution argument: the macro's segments
    delay_ms,       \* start_execution argument: the pacing delay
    expanded,       \* execution_worker local: the expanded segments
    i,              \* execution_worker local: enumerate() index, 0-based
    pc,             \* where the worker thread is
    sleep_ms,       \* cancellable_sleep argument ms (total_delay)
    elapsed,        \* cancellable_sleep: start.elapsed() in ms
    sleep_kind,     \* "none", or which call of cancellable_sleep is active
    stop_flag,      \* Arc<AtomicBool> shared by handle and worker
    chan,           \* commands sent and not yet received
    rx_alive,       \* the Receiver has not been dropped
    received,       \* commands the holder of the Receiver has taken
    handle,         \* ExecutionHandle: "held", "joining", "joined"
    emitted,        \* history: every command the worker handed to tx.send
    exit_site,      \* history: which return of execution_worker was taken
    stop_calls,     \* history: number of stop() calls (saturating)
    stop_point,     \* history: where the worker was when the flag was set
    slices_after_stop, \* history: slices finished since the flag was set
    ms_after_stop   \* history: their total length in ms

\* The application around the engine (src/src/main.rs KeyBlastApp), which
\* starts one run after another; its runs are kept apart from the single
\* run above.
VARIABLES
    runs,               \* every execution started so far, by run number
    flags,              \* every Stop Flag created so far (Arc<AtomicBool>)
    chans,              \* every channel created so far
    active_execution,   \* Option<ExecutionHandle>: 0, or the run it handles
    execution_rx,       \* Option<Receiver>: 0, or the channel it receives
    execution_prepared, \* bool
    should_exit,        \* bool
    app_pc,             \* "loop", "joining" (blocked in join), "exited"
    sink,               \* history: what the injector was asked to do
    enabled,            \* state.enabled: macro playback is switched on
    ignored             \* history: why the last ignored trigger was ignored

\* The application's HotkeyManager (src/src/hotkey.rs) and the operating
\* system's hotkey table behind it.  A HotKey is known by its id.
VARIABLES
    bindings,   \* HashMap<u32, HotkeyBinding>: hotkey id -> macro_id
    manager,    \* GlobalHotKeyManager: the hotkeys this process registered
    os_taken,   \* the hotkeys held by the system or by other applications
    hk_last     \* history: the last call, what it returned, its OS calls

hotkeyVars == << bindings, manager, os_taken, hk_last >>

appVars == << runs, flags, chans, active_execution, execution_rx,
              execution_prepared, should_exit, app_pc, sink, enabled,
              ignored, hotkeyVars >>

\* What the steps of a run and of the command loop leave alone.
eventVars == << enabled, ignored, hotkeyVars >>

engineVars == << segments, delay_ms, expanded, i, pc, sleep_ms, elapsed,
                 sleep_kind, stop_flag, chan, rx_alive, received, handle,
                 emitted, exit_site, stop_calls, stop_point,
                 slices_after_stop, ms_after_stop >>

\* The macro DSL parser (src/src/injection.rs, parse_macro_sequence): its
\* argument and its locals.  A String is a sequence of characters.
VARIABLES
    input,           \* parse_macro_sequence argument
    recipe,          \* history: how the input text was put together
    chars,           \* the Peekable<Chars> iterator: characters consumed
    current_text,    \* local String
    parse_segments,  \* local Vec<MacroSegment> (`segments`), the result
    parse_pc         \* "idle", "loop" (in the while loop), "done"

parseVars == << input, recipe, chars, current_text, parse_segments, parse_pc >>

vars == << engineVars, appVars, parseVars >>

\* What the execution engine's own steps leave alone.
offVars == << appVars, parseVars >>

inputVars == << segments, delay_ms >>
workerVars == << expanded, i, pc, sleep_ms, elapsed, sleep_kind >>
historyVars == << emitted, exit_site, stop_calls, stop_point,
                  slices_after_stop, ms_after_stop >>

NoPoint == [pc |-> "none"]

NoCall == [op |-> "none", hotkey |-> 0, count |-> 0, result |-> "none",
           suggestions |-> <<>>, os |-> <<>>]

\* HotkeyManager::new, hotkey.rs lines 38-44: no bindings, and nothing
\* registered with the operating system yet.
HotkeyIdle ==
    /\ bindings = <<>>
    /\ manager = {}
    /\ os_taken = {}
    /\ hk_last = NoCall

\* KeyBlastApp::new, main.rs lines 107-112, and AppState::new, app.rs line
\* 11: nothing is executing, playback is enabled.
AppIdle ==
    /\ runs = <<>>
    /\ flags = <<>>
    /\ chans = <<>>
    /\ active_execution = 0
    /\ execution_rx = 0
    /\ execution_prepared = FALSE
    /\ should_exit = FALSE
    /\ app_pc = "loop"
    /\ sink = <<>>
    /\ enabled = TRUE
    /\ ignored = "none"
    /\ HotkeyIdle

\* parse_macro_sequence is not running.
ParserIdle ==
    /\ input = <<>>
    /\ recipe = [kind |-> "none"]
    /\ chars = 0
    /\ current_text = <<>>
    /\ parse_segments = <<>>
    /\ parse_pc = "idle"

\* start_execution lines 111-129 has returned: fresh channel, flag false,
\* thread spawned, handle and receiver in the caller's hands.
Init ==
    /\ segments \in Macros
    /\ delay_ms \in DelayChoices
    /\ expanded = <<>>
    /\ i = 0
    /\ pc = "spawned"
    /\ sleep_ms = 0
    /\ elapsed = 0
    /\ sleep_kind = "none"
    /\ stop_flag = FALSE
    /\ chan = <<>>
    /\ rx_alive = TRUE
    /\ received = <<>>
    /\ handle = "held"
    /\ emitted = <<>>
    /\ exit_site = "none"
    /\ stop_calls = 0
    /\ stop_point = NoPoint
    /\ slices_after_stop = 0
    /\ ms_after_stop = 0
    /\ AppIdle
    /\ ParserIdle

----------------------------------------------------------------------------
\* tx.send(cmd): the command is handed to the channel; it is enqueued when
\* the Receiver is alive, and send returns Err (the command is lost) when
\* the Receiver has been dropped.
Send(cmd) ==
    /\ ~ChanFull(chan)
    /\ emitted' = Append(emitted, cmd)
    /\ chan' = IF rx_alive THEN ChanSend(chan, cmd) ELSE chan

\* (a return that is missing: the loop goes on with the next segment)
ReturnFallThrough(site) ==
    /\ pc' = "loop"
    /\ i' = i + 1
    /\ exit_site' = site
    /\ sleep_kind' = "none"
    /\ UNCHANGED << sleep_ms, elapsed >>

\* The worker returns from execution_worker at `site`.
Return(site) ==
    /\ pc' = "exit"
    /\ exit_site' = site
    /\ sleep_kind' = "none"
    /\ UNCHANGED << i, sleep_ms, elapsed >>

\* cancellable_sleep(ms, &stop_flag) is entered.
EnterSleep(ms, kind) ==
    /\ pc' = "sleep"
    /\ sleep_ms' = ms
    /\ elapsed' = 0
    /\ sleep_kind' = kind
    /\ UNCHANGED << i, exit_site >>

\* The for loop moves to its next element.
NextSegment ==
    /\ pc' = "loop"
    /\ i' = i + 1
    /\ sleep_kind' = "none"
    /\ UNCHANGED << sleep_ms, elapsed, exit_site >>

\* lines 146-163: the thread starts, expands the segments.
WorkerStart ==
    /\ pc = "spawned"
    /\ expanded' = Expand(segments, delay_ms)
    /\ pc' = "loop"
    /\ UNCHANGED << offVars, inputVars, i, sleep_ms, elapsed, sleep_kind, stop_flag,
                    chan, rx_alive, received, handle, historyVars >>

\* (the flag looked at once more after the loop)
WorkerCompleteUnlessStopped ==
    /\ pc = "loop"
    /\ i >= Len(expanded)
    /\ Send(IF stop_flag THEN Cancelled ELSE Complete)
    /\ Return("end")
    /\ UNCHANGED << offVars, inputVars, expanded, stop_flag, rx_alive, received, handle,
                    stop_calls, stop_point, slices_after_stop, ms_after_stop >>

\* line 196: the loop is exhausted, Complete is sent.
WorkerComplete ==
    /\ pc = "loop"
    /\ i >= Len(expanded)
    /\ Send(Complete)
    /\ Return("end")
    /\ UNCHANGED << offVars, inputVars, expanded, stop_flag, rx_alive, received, handle,
                    stop_calls, stop_point, slices_after_stop, ms_after_stop >>

\* (the flag checked after the segment was sent instead of before)
WorkerCheckAfterSend ==
    /\ pc = "loop"
    /\ i < Len(expanded)
    /\ stop_flag
    /\ ~ChanFull(chan)
    /\ emitted' = emitted \o << Inject(expanded[i + 1]), Cancelled >>
    /\ chan' = IF rx_alive
               THEN ChanSend(ChanSend(chan, Inject(expanded[i + 1])), Cancelled)
               ELSE chan
    /\ Return("check")
    /\ UNCHANGED << offVars, inputVars, expanded, stop_flag, rx_alive, received, handle,
                    stop_calls, stop_point, slices_after_stop, ms_after_stop >>

\* lines 167-170: the check before a segment observes the flag set.
WorkerCheckCancelled ==
    /\ pc = "loop"
    /\ i < Len(expanded)
    /\ stop_flag
    /\ Send(Cancelled)
    /\ Return("check")
    /\ UNCHANGED << offVars, inputVars, expanded, stop_flag, rx_alive, received, handle,
                    stop_calls, stop_point, slices_after_stop, ms_after_stop >>

\* (a Delay treated like any other segment and forwarded)
WorkerCheckPassForwardDelay ==
    /\ pc = "loop"
    /\ i < Len(expanded)
    /\ ~stop_flag
    /\ pc' = "send"
    /\ UNCHANGED << offVars, inputVars, expanded, i, sleep_ms, elapsed, sleep_kind,
                    stop_flag, chan, rx_alive, received, handle, historyVars >>

\* lines 167-181: the check passes; a Delay enters cancellable_sleep, any
\* other segment goes on to be sent.
WorkerCheckPass ==
    /\ pc = "loop"
    /\ i < Len(expanded)
    /\ ~stop_flag
    /\ IF IsDelay(expanded[i + 1])
       THEN EnterSleep(expanded[i + 1].ms, "delay")
       ELSE /\ pc' = "send"
            /\ UNCHANGED << i, sleep_ms, elapsed, sleep_kind, exit_site >>
    /\ UNCHANGED << offVars, inputVars, expanded, stop_flag, chan, rx_alive, received,
                    handle, emitted, stop_calls, stop_point,
                    slices_after_stop, ms_after_stop >>

\* (the result of send ignored: the worker goes on after a failed send)
WorkerSendInjectIgnoreErr ==
    /\ pc = "send"
    /\ Send(Inject(expanded[i + 1]))
    /\ IF NeedsPacing(delay_ms, i, Len(expanded))
       THEN EnterSleep(delay_ms, "pacing")
       ELSE NextSegment
    /\ UNCHANGED << offVars, inputVars, expanded, stop_flag, rx_alive, received, handle,
                    stop_calls, stop_point, slices_after_stop, ms_after_stop >>

\* lines 182-193: Inject is sent; the send fails when the Receiver is gone
\* and the worker returns; otherwise a pacing sleep follows unless this is
\* the last segment.
WorkerSendInject ==
    /\ pc = "send"
    /\ Send(Inject(expanded[i + 1]))
    /\ IF ~rx_alive
       THEN Return("send_err")
       ELSE IF NeedsPacing(delay_ms, i, Len(expanded))
            THEN EnterSleep(delay_ms, "pacing")
            ELSE NextSegment
    /\ UNCHANGED << offVars, inputVars, expanded, stop_flag, rx_alive, received, handle,
                    stop_calls, stop_point, slices_after_stop, ms_after_stop >>

\* (after a sleep the next segment is sent without the check before it)
SleepDoneSkipCheck ==
    /\ pc = "sleep"
    /\ ~(elapsed < sleep_ms)
    /\ pc' = IF i + 1 < Len(expanded) /\ ~IsDelay(expanded[i + 2])
             THEN "send" ELSE "loop"
    /\ i' = i + 1
    /\ sleep_kind' = "none"
    /\ UNCHANGED << offVars, inputVars, expanded, sleep_ms, elapsed, exit_site,
                    stop_flag, chan, rx_alive, received, handle, emitted,
                    stop_calls, stop_point, slices_after_stop, ms_after_stop >>

\* cancellable_sleep lines 206-212: the loop condition is false, the sleep
\* is over and returns true; the for loop continues.
SleepDone ==
    /\ pc = "sleep"
    /\ ~(elapsed < sleep_ms)
    /\ NextSegment
    /\ UNCHANGED << offVars, inputVars, expanded, stop_flag, chan, rx_alive, received,
                    handle, emitted, stop_calls, stop_point,
                    slices_after_stop, ms_after_stop >>

\* cancellable_sleep lines 206-209 and worker lines 174-177, 189-192: the
\* flag is seen set, the sleep returns false, Cancelled is sent.
SleepCancelled ==
    /\ pc = "sleep"
    /\ elapsed < sleep_ms
    /\ stop_flag
    /\ Send(Cancelled)
    /\ Return(sleep_kind)
    /\ UNCHANGED << offVars, inputVars, expanded, stop_flag, rx_alive, received, handle,
                    stop_calls, stop_point, slices_after_stop, ms_after_stop >>

\* (a slice begun without looking at the flag)
SleepBeginBlind ==
    /\ pc = "sleep"
    /\ elapsed < sleep_ms
    /\ pc' = "slice"
    /\ UNCHANGED << offVars, inputVars, expanded, i, sleep_ms, elapsed, sleep_kind,
                    stop_flag, chan, rx_alive, received, handle, historyVars >>

\* cancellable_sleep lines 206-210: the flag is seen clear, a slice begins.
SleepBegin ==
    /\ pc = "sleep"
    /\ elapsed < sleep_ms
    /\ ~stop_flag
    /\ pc' = "slice"
    /\ UNCHANGED << offVars, inputVars, expanded, i, sleep_ms, elapsed, sleep_kind,
                    stop_flag, chan, rx_alive, received, handle, historyVars >>

\* line 210: thread::sleep(check_interval) returns.
SleepSlice ==
    /\ pc = "slice"
    /\ elapsed' = elapsed + CheckInterval(sleep_ms)
    /\ pc' = "sleep"
    /\ slices_after_stop' = IF stop_flag THEN slices_after_stop + 1
                            ELSE slices_after_stop
    /\ ms_after_stop' = IF stop_flag THEN ms_after_stop + CheckInterval(sleep_ms)
                        ELSE ms_after_stop
    /\ UNCHANGED << offVars, inputVars, expanded, i, sleep_ms, sleep_kind, stop_flag,
                    chan, rx_alive, received, handle, emitted, exit_site,
                    stop_calls, stop_point >>

\* The thread function has returned; the thread finishes.
WorkerExit ==
    /\ pc = "exit"
    /\ pc' = "done"
    /\ UNCHANGED << offVars, inputVars, expanded, i, sleep_ms, elapsed, sleep_kind,
                    stop_flag, chan, rx_alive, received, handle, historyVars >>

Worker ==
    \/ WorkerStart
    \/ WorkerComplete
    \/ WorkerCheckCancelled
    \/ WorkerCheckPass
    \/ WorkerSendInject
    \/ SleepDone
    \/ SleepCancelled
    \/ SleepBegin
    \/ SleepSlice
    \/ WorkerExit

----------------------------------------------------------------------------
\* ExecutionHandle::stop lines 57-59: stop_flag.store(true).
StopToggle == ~stop_flag

StopStore == TRUE

Stop ==
    /\ handle = "held"
    /\ stop_flag' = StopStore
    /\ stop_calls' = Min(stop_calls + 1, MaxStops)
    /\ stop_point' = IF stop_flag THEN stop_point
                     ELSE [pc |-> pc, kind |-> sleep_kind, i |-> i,
                           elapsed |-> elapsed, ms |-> sleep_ms,
                           sent |-> Len(emitted)]
    /\ UNCHANGED << offVars, inputVars, workerVars, chan, rx_alive, received, handle,
                    emitted, exit_site, slices_after_stop, ms_after_stop >>

\* (the negation of is_finished() left out)
IsRunningInverted == handle = "held" /\ pc = "done"

\* ExecutionHandle::is_running lines 62-64.
IsRunning == handle = "held" /\ pc # "done"

\* ExecutionHandle::join lines 69-73: the handle is consumed and the caller
\* blocks in thread.join() ...
JoinCall ==
    /\ handle = "held"
    /\ handle' = "joining"
    /\ UNCHANGED << offVars, inputVars, workerVars, stop_flag, chan, rx_alive, received,
                    historyVars >>

\* ... which returns once the worker thread has finished.
JoinReturn ==
    /\ handle = "joining"
    /\ pc = "done"
    /\ handle' = "joined"
    /\ UNCHANGED << offVars, inputVars, workerVars, stop_flag, chan, rx_alive, received,
                    historyVars >>

\* rx.try_recv() returns Ok(cmd): the oldest command is taken.
Recv ==
    /\ rx_alive
    /\ chan # <<>>
    /\ received' = Append(received, Head(chan))
    /\ chan' = Tail(chan)
    /\ UNCHANGED << offVars, inputVars, workerVars, stop_flag, rx_alive, handle,
                    historyVars >>

\* The Receiver is dropped: the channel is disconnected and what it still
\* holds is discarded.
DropReceiver ==
    /\ rx_alive
    /\ rx_alive' = FALSE
    /\ chan' = <<>>
    /\ UNCHANGED << offVars, inputVars, workerVars, stop_flag, received, handle,
                    historyVars >>

Next ==
    \/ Worker
    \/ Stop
    \/ JoinCall
    \/ JoinReturn
    \/ Recv
    \/ DropReceiver

Spec == Init /\ [][Next]_vars

\* The worker thread is scheduled by the OS until it finishes, and a caller
\* blocked in thread.join() is woken once the thread has finished.
SpecLive == Spec /\ WF_vars(Worker) /\ WF_vars(JoinReturn)

----------------------------------------------------------------------------
\* Vocabulary of the properties.
Last(q) == q[Len(q)]

IsPrefix(p, q) == Len(p) <= Len(q) /\ SubSeq(q, 1, Len(p)) = p

\* The segments carried by the Inject commands of a command sequence.
RECURSIVE Payloads(_)
Payloads(cmds) ==
    IF cmds = <<>> THEN <<>>
    ELSE IF IsInject(Head(cmds))
         THEN <<Head(cmds).seg>> \o Payloads(Tail(cmds))
         ELSE Payloads(Tail(cmds))

RECURSIVE NonDelay(_)
NonDelay(segs) ==
    IF segs = <<>> THEN <<>>
    ELSE IF IsDelay(Head(segs))
         THEN NonDelay(Tail(segs))
         ELSE <<Head(segs)>> \o NonDelay(Tail(segs))

TerminalPositions(cmds) == { k \in 1..Len(cmds) : IsTerminal(cmds[k]) }

WorkerFinished == pc \in {"exit", "done"}

\* C1: the worker sends at most one terminal command (Complete or
\* Cancelled, never both), nothing after it, and when the receiver is still
\* alive a finished worker's command sequence ends with exactly one.
C1_OneTerminalLast ==
    LET T == TerminalPositions(emitted)
    IN  /\ Cardinality(T) <= 1
        /\ \A k \in T : k = Len(emitted)
        /\ (WorkerFinished /\ rx_alive) =>
              /\ Cardinality(T) = 1
              /\ IsTerminal(Last(emitted))

C1_Witness ==
    /\ pc = "done"
    /\ rx_alive
    /\ stop_calls >= 1
    /\ Len(emitted) >= 3
    /\ Last(emitted) = Cancelled

\* C2: the receiver sees the commands in the order they were sent, the
\* terminal command is the last one it receives, and the received Inject
\* payloads are a prefix of the expanded macro without its Delay segments.
C2_OrderedPrefix ==
    /\ rx_alive => received \o chan = emitted
    /\ IsPrefix(received, emitted)
    /\ \A k \in TerminalPositions(received) :
          k = Len(received) /\ chan = <<>>
    /\ IsPrefix(Payloads(received), NonDelay(Expand(segments, delay_ms)))

C2_Witness ==
    /\ Len(received) >= 3
    /\ IsTerminal(Last(received))
    /\ \E k \in 1..Len(segments) : IsDelay(segments[k])
    /\ delay_ms > 0

\* C3: with pacing delay 0, no Delay segment, no stop() and a live
\* receiver, the finished run emitted one Inject per segment, each carrying
\* the segment unchanged and in order, then exactly one Complete.
C3_CompletionLaw ==
    ( /\ delay_ms = 0
      /\ \A k \in 1..Len(segments) : ~IsDelay(segments[k])
      /\ stop_calls = 0
      /\ rx_alive
      /\ WorkerFinished )
    => emitted = [k \in 1..Len(segments) |-> Inject(segments[k])] \o <<Complete>>

C3_Witness ==
    /\ delay_ms = 0
    /\ stop_calls = 0
    /\ rx_alive
    /\ pc = "done"
    /\ Len(segments) = 2
    /\ segments[1] = Text(<<"a", "b">>)
    /\ segments[2] = SpecialKey("Return")
    /\ Len(emitted) = 3

\* Number of Inject commands a segment stands for under a pacing delay.
Weight(seg) == IF IsText(seg) THEN Len(seg.text) ELSE 1

RECURSIVE TotalWeight(_)
TotalWeight(segs) ==
    IF segs = <<>> THEN 0 ELSE Weight(Head(segs)) + TotalWeight(Tail(segs))

\* C4: with pacing delay > 0 a Text of k characters is emitted as k Inject
\* commands of one character each, in character order, and every non-Text
\* segment is emitted unchanged at its position.
C4_ExpansionLaw ==
    delay_ms > 0 =>
      LET nd == NonDelay(segments)
          P  == Payloads(emitted)
          Off(k) == TotalWeight(SubSeq(nd, 1, k - 1))
      IN  /\ Len(P) <= TotalWeight(nd)
          /\ \A n \in 1..Len(P) : IsText(P[n]) => Len(P[n].text) = 1
          /\ \A k \in 1..Len(nd) : \A j \in 1..Weight(nd[k]) :
                Off(k) + j <= Len(P) =>
                   P[Off(k) + j] = IF IsText(nd[k])
                                   THEN Text(<<nd[k].text[j]>>)
                                   ELSE nd[k]
          /\ exit_site = "end" => Len(P) = TotalWeight(nd)

C4_Witness ==
    /\ delay_ms > 0
    /\ exit_site = "end"
    /\ segments = << Text(<<"a", "b">>), SpecialKey("Return") >>
    /\ Payloads(emitted) = << Text(<<"a">>), Text(<<"b">>), SpecialKey("Return") >>

\* The flag became set while the worker was in a pacing sleep.
StoppedInPacing ==
    stop_point.pc \in {"sleep", "slice"} /\ stop_point.kind = "pacing"

\* C5: when stop() sets the flag while the worker is in a pacing sleep
\* (so after its first Inject and with a segment still to come), the run's
\* commands are one or more Inject followed by exactly one Cancelled: no
\* Complete, nothing after the Cancelled.
C5_CancellationLaw ==
    StoppedInPacing =>
      /\ Len(emitted) >= 1
      /\ \A k \in 1..Len(emitted) :
            \/ IsInject(emitted[k])
            \/ (k = Len(emitted) /\ k >= 2 /\ emitted[k] = Cancelled)
      /\ WorkerFinished => Last(emitted) = Cancelled

C5_Witness ==
    /\ StoppedInPacing
    /\ pc = "done"
    /\ segments = << Text(<<"a", "b">>), SpecialKey("Return") >>
    /\ emitted = << Inject(Text(<<"a">>)), Inject(Text(<<"b">>)), Cancelled >>

\* C6: once the check before segment i has seen the flag set, the worker
\* has emitted Cancelled and is finished: the Inject commands it emitted are
\* those of the segments before i only, and it is in no sleep.
C6_CheckStops ==
    exit_site = "check" =>
      /\ WorkerFinished
      /\ sleep_kind = "none"
      /\ Last(emitted) = Cancelled
      /\ Payloads(emitted) = NonDelay(SubSeq(expanded, 1, i))
      /\ i < Len(expanded)

C6_Witness ==
    /\ exit_site = "check"
    /\ pc = "done"
    /\ i = 1
    /\ Len(expanded) = 3
    /\ Len(emitted) = 2

\* The flag became set while a cancellable_sleep had not yet run its time.
StoppedInSleep ==
    \/ stop_point.pc = "slice"
    \/ stop_point.pc = "sleep" /\ stop_point.elapsed < stop_point.ms

\* ... during the slice that ends that sleep.
StoppedInFinalSlice ==
    /\ stop_point.pc = "slice"
    /\ stop_point.elapsed + Min(50, stop_point.ms) >= stop_point.ms

\* ... and the sleep was that of a Delay that is the macro's last segment.
StoppedInLastDelay ==
    stop_point.kind = "delay" /\ stop_point.i = Len(expanded) - 1

\* C7 as stated: a flag set during an interruptible sleep always ends the
\* run with Cancelled, never Complete, a last Delay segment included.
C7_Original ==
    (StoppedInSleep /\ WorkerFinished) => Last(emitted) = Cancelled

\* C7 amended: a flag set during an interruptible sleep ends the run with
\* Cancelled, except when it is set during the final slice of a Delay that
\* is the last segment: then the run ends with Complete.
C7_CancelledUnlessFinalSliceOfLastDelay ==
    (StoppedInSleep /\ WorkerFinished) =>
      Last(emitted) = IF StoppedInFinalSlice /\ StoppedInLastDelay
                      THEN Complete
                      ELSE Cancelled

C7_Witness ==
    /\ StoppedInSleep
    /\ stop_point.kind = "delay"
    /\ stop_point.ms = 120
    /\ stop_point.elapsed = 50
    /\ StoppedInLastDelay
    /\ pc = "done"
    /\ Last(emitted) = Cancelled

\* C8: after the flag is set the worker finishes at most one more sleep
\* slice, of at most 50 ms, whatever the length of the sleep it is in.
C8_OneSliceLatency ==
    /\ slices_after_stop <= 1
    /\ ms_after_stop <= 50
    /\ (pc = "slice" /\ stop_flag) => slices_after_stop = 0

C8_Witness ==
    /\ slices_after_stop = 1
    /\ ms_after_stop = 50
    /\ stop_point.ms = 120
    /\ stop_point.elapsed = 0
    /\ stop_point.pc = "slice"
    /\ pc = "done"
    /\ exit_site = "delay"

\* C9: the worker always finishes and join() always returns, whether or not
\* any command is ever taken from the channel.
C9_JoinReturns ==
    /\ <>(pc = "done")
    /\ (handle = "joining") ~> (handle = "joined")

C9_Witness ==
    /\ handle = "joined"
    /\ stop_calls = 1
    /\ stop_point.pc = "spawned"
    /\ rx_alive
    /\ received = <<>>
    /\ Len(chan) = 1

\* C10: a stop() call only sets the flag; a call that finds it set changes
\* nothing; and once the worker has taken its return no later step (stop()
\* included) adds a command or changes how the run ended.
C10_StopIdempotent ==
    [][ /\ (stop_calls' # stop_calls) =>
             /\ stop_flag'
             /\ UNCHANGED << offVars, inputVars, workerVars, chan, rx_alive, received,
                             handle, emitted, exit_site >>
             /\ stop_flag => UNCHANGED << stop_flag, stop_point,
                                          slices_after_stop, ms_after_stop >>
        /\ (exit_site # "none") =>
             UNCHANGED << emitted, exit_site >> ]_vars

C10_Witness ==
    /\ stop_calls = 2
    /\ stop_point.pc = "done"
    /\ exit_site = "end"
    /\ Last(emitted) = Complete
    /\ rx_alive

\* C12: no Inject ever carries a Delay segment; while the worker sleeps for
\* a Delay at index i it has sent Inject for the segments before i only and
\* sends nothing but Cancelled, and it goes on to the next segment only when
\* the requested time has elapsed.
C12_DelayNotForwarded ==
    /\ [] ( /\ \A k \in 1..Len(emitted) :
                 emitted[k].cmd = "Inject" => emitted[k].seg.type # "Delay"
            /\ \A k \in 1..Len(chan) :
                 chan[k].cmd = "Inject" => chan[k].seg.type # "Delay"
            /\ sleep_kind = "delay" =>
                 /\ expanded[i + 1].type = "Delay"
                 /\ sleep_ms = expanded[i + 1].ms
                 /\ Len(Payloads(emitted))
                      = Cardinality({ k \in 1..i : expanded[k].type # "Delay" }) )
    /\ [][ sleep_kind = "delay" =>
             /\ emitted' # emitted => emitted' = Append(emitted, Cancelled)
             /\ pc' = "loop" => elapsed >= sleep_ms ]_vars

C12_Witness ==
    /\ segments = << Delay(120), SpecialKey("Return") >>
    /\ emitted = << Inject(SpecialKey("Return")) >>
    /\ elapsed = 150
    /\ chan = emitted

\* C13: a worker whose Inject is refused because the receiver is gone
\* returns at once: the refused Inject is the last thing it handed to the
\* channel, it sent no terminal command, it is in no sleep and it finishes
\* like any other run.
C13_SilentOnDisconnect ==
    /\ [] ( exit_site = "send_err" =>
              /\ ~rx_alive
              /\ WorkerFinished
              /\ sleep_kind = "none"
              /\ Last(emitted) = Inject(expanded[i + 1])
              /\ TerminalPositions(emitted) = {} )
    /\ [][ (pc = "send" /\ ~rx_alive /\ pc' # pc) =>
              (pc' = "exit" /\ exit_site' = "send_err") ]_vars

C13_Witness ==
    /\ exit_site = "send_err"
    /\ pc = "done"
    /\ i = 1
    /\ Len(expanded) = 3
    /\ Len(emitted) = 2
    /\ Len(received) = 1

\* C14: once the worker has taken its return, is_running() eventually
\* answers false, and once it has answered false it never answers true
\* again.
C14_IsRunningFalls ==
    /\ (exit_site # "none" /\ handle = "held")
          ~> (~IsRunning)
    /\ [][ (handle = "held" /\ ~IsRunning) => ~IsRunning' ]_vars
    /\ [] (IsRunning => pc # "done")

C14_Witness ==
    /\ handle = "held"
    /\ ~IsRunning
    /\ Last(emitted) = Complete
    /\ Len(emitted) = 3

----------------------------------------------------------------------------
(***************************************************************************)
(* The application (src/src/main.rs): macro triggers start executions, the *)
(* event loop's about_to_wait drains the active run's channel into the     *)
(* injector, stop requests and quit act on the active handle.  Several     *)
(* runs follow one another, each with the worker of execution.rs.          *)
(***************************************************************************)

\* Executions (synchronous ones included) started in one behaviour.
MaxRuns == 2

\* The configured macros a trigger can fire: a paced text (worker), a macro
\* with a Delay (worker), a short unpaced text (synchronous fast path).
AppMacroChoices ==
    { [segments |-> << Text(<<"a", "b">>) >>, delay_ms |-> 70],
      [segments |-> << Delay(70), SpecialKey("Return") >>, delay_ms |-> 0],
      [segments |-> << Text(<<"a", "b">>) >>, delay_ms |-> 0] }

\* main.rs lines 462-463 / 641-642: the fast path condition.
FastPathLimit == 10

\* (the test of the number of segments left out)
IsFastPathAnyLength(m) ==
    /\ m.delay_ms = 0
    /\ \A k \in 1..Len(m.segments) : ~IsDelay(m.segments[k])

IsFastPath(m) ==
    /\ m.delay_ms = 0
    /\ Len(m.segments) <= FastPathLimit
    /\ \A k \in 1..Len(m.segments) : ~IsDelay(m.segments[k])

\* What the injector is asked to do, with the run whose command asked for it
\* and the run that was active at that moment.
SinkPrepare(r, act, ok) ==
    [op |-> "prepare", ok |-> ok, run |-> r, during |-> act]
SinkApply(seg, r, act, ok) ==
    [op |-> "apply", seg |-> seg, ok |-> ok, run |-> r, during |-> act]

\* One step of execution_worker (execution.rs lines 140-213) for the worker
\* state w, given what it reads: the value of its Stop Flag and whether its
\* channel still has a receiver.  The result is the new worker state and the
\* commands handed to tx.send in this step.  A step is a read of the flag
\* with what follows it up to the next read or send (a sleep slice
\* included), or a send with what follows it; a return ends the thread.
AppWorkerStep(w, flagSet, alive) ==
    LET ret(site, cmd) ==
            [w |-> [w EXCEPT !.pc = "done", !.exit_site = site,
                             !.sleep_kind = "none",
                             !.emitted = Append(@, cmd)],
             sent |-> <<cmd>>]
        next(x) == [x EXCEPT !.pc = "loop", !.i = @ + 1, !.sleep_kind = "none"]
        enter(x, ms, kind) ==
            IF ms = 0 THEN next(x)
            ELSE [x EXCEPT !.pc = "sleep", !.sleep_ms = ms, !.elapsed = 0,
                           !.sleep_kind = kind]
    IN
    CASE w.pc = "loop" ->
           IF w.i >= Len(w.expanded) THEN ret("end", Complete)
           ELSE IF flagSet THEN ret("check", Cancelled)
           ELSE IF IsDelay(w.expanded[w.i + 1])
                THEN [w |-> enter(w, w.expanded[w.i + 1].ms, "delay"),
                      sent |-> <<>>]
                ELSE [w |-> [w EXCEPT !.pc = "send"], sent |-> <<>>]
      [] w.pc = "send" ->
           LET cmd == Inject(w.expanded[w.i + 1])
               x == [w EXCEPT !.emitted = Append(@, cmd)]
           IN  IF ~alive
               THEN [w |-> [x EXCEPT !.pc = "done", !.exit_site = "send_err"],
                     sent |-> <<cmd>>]
               ELSE IF NeedsPacing(w.delay_ms, w.i, Len(w.expanded))
                    THEN [w |-> enter(x, w.delay_ms, "pacing"), sent |-> <<cmd>>]
                    ELSE [w |-> next(x), sent |-> <<cmd>>]
      [] w.pc = "sleep" ->
           IF flagSet THEN ret(w.sleep_kind, Cancelled)
           ELSE LET e == w.elapsed + CheckInterval(w.sleep_ms)
                IN  IF e < w.sleep_ms
                    THEN [w |-> [w EXCEPT !.elapsed = e], sent |-> <<>>]
                    ELSE [w |-> next(w), sent |-> <<>>]

\* A command in a channel, with the run whose worker sent it.
Tagged(cmd, r) == [c |-> cmd, run |-> r]

RECURSIVE SendAll(_, _, _)
SendAll(q, cmds, r) ==
    IF cmds = <<>> THEN q
    ELSE SendAll(ChanSend(q, Tagged(Head(cmds), r)), Tail(cmds), r)

\* start_execution lines 115-117: a new channel and a new Stop Flag.
FreshChan(cs) == Len(cs) + 1

SharedFlag(fs) == 1

FreshFlag(fs) == Len(fs) + 1

\* start_execution lines 111-129 and execution_worker lines 146-161: the
\* state of a run just started, its worker about to enter the loop.
NewRun(m, f, c) ==
    [kind |-> "async", segments |-> m.segments, delay_ms |-> m.delay_ms,
     expanded |-> Expand(m.segments, m.delay_ms), i |-> 0, pc |-> "loop",
     sleep_ms |-> 0, elapsed |-> 0, sleep_kind |-> "none", flag |-> f,
     tx |-> c,
     exit_site |-> "none", emitted |-> <<>>,
     handle |-> "held", handled |-> "none", stopped |-> FALSE,
     inflight |-> FALSE]

\* A macro run on the fast path: no worker, no handle.
SyncRun(m) ==
    [kind |-> "sync", segments |-> m.segments, delay_ms |-> m.delay_ms,
     expanded |-> m.segments, i |-> 0, pc |-> "done", sleep_ms |-> 0,
     elapsed |-> 0, sleep_kind |-> "none", flag |-> 0, tx |-> 0,
     exit_site |-> "none", emitted |-> <<>>,
     handle |-> "none", handled |-> "none", stopped |-> FALSE,
     inflight |-> FALSE]

\* injection.rs execute_sequence lines 144-209 with delay 0: modifiers are
\* released, then each segment is applied; the first failure ends it.
\* failAt = 0: no failure; 1: release_modifiers fails; k + 1: segment k.
RECURSIVE ExecuteSequence(_, _, _, _)
ExecuteSequence(segs, k, failAt, r) ==
    IF k > Len(segs) THEN <<>>
    ELSE IF failAt = k + 1 THEN << SinkApply(segs[k], r, 0, FALSE) >>
    ELSE << SinkApply(segs[k], r, 0, TRUE) >>
         \o ExecuteSequence(segs, k + 1, failAt, r)

\* The thread of run r takes a step.
AppWorker(r) ==
    /\ app_pc # "exited"
    /\ runs[r].pc # "done"
    /\ LET w == runs[r]
           alive == chans[w.tx].rx_alive
           res == AppWorkerStep(w, flags[w.flag], alive)
       IN  /\ runs' = [runs EXCEPT ![r] = res.w]
           /\ chans' = IF alive
                       THEN [chans EXCEPT ![w.tx].q = SendAll(@, res.sent, r)]
                       ELSE chans
    /\ UNCHANGED << parseVars, engineVars, eventVars,
                    flags, active_execution, execution_rx,
                    execution_prepared, should_exit, app_pc, sink >>

\* ExecutionHandle::stop on the handle of run r.
StopRun(r, rs, fs) == [fs EXCEPT ![rs[r].flag] = TRUE]

\* The Receiver of channel c is dropped.
DropRx(cs, c) == [cs EXCEPT ![c] = [q |-> <<>>, rx_alive |-> FALSE]]

\* (the check for a running execution left out)
MayStartWhileBusy == enabled

\* user_event lines 437-447, about_to_wait lines 624-634: a trigger goes on
\* only when playback is enabled and no execution is active.
MayStart == enabled /\ active_execution = 0

\* The same lines: otherwise the trigger returns early and nothing is
\* started.
AppTriggerIgnored ==
    /\ app_pc = "loop"
    /\ ~MayStart
    /\ ignored' = IF ~enabled THEN "disabled" ELSE "busy"
    /\ UNCHANGED << parseVars, engineVars, runs, flags, chans,
                    active_execution, execution_rx, execution_prepared,
                    should_exit, app_pc, sink, enabled, hotkeyVars >>

\* about_to_wait lines 719-748 (the Enable/Disable menu entry,
\* AppState::toggle) and reload lines 245-246 (settings.enabled of a changed
\* config file): playback is switched on or off.
AppSetEnabled(b) ==
    /\ app_pc = "loop"
    /\ enabled # b
    /\ enabled' = b
    /\ UNCHANGED << parseVars, engineVars, runs, flags, chans,
                    active_execution, execution_rx, execution_prepared,
                    should_exit, app_pc, sink, ignored, hotkeyVars >>

\* user_event lines 433-489 and about_to_wait lines 623-666: a hotkey or a
\* tray menu entry triggers macro m.  With an execution active the trigger
\* is ignored; a short unpaced macro runs synchronously; any other starts a
\* worker and stores its handle and receiver.
AppTrigger(m) ==
    /\ app_pc = "loop"
    /\ Len(runs) < MaxRuns
    /\ MayStart
    /\ IF IsFastPath(m)
       THEN \E failAt \in 0..(Len(m.segments) + 1) :
              /\ runs' = Append(runs, SyncRun(m))
              /\ sink' = sink \o
                   ( IF failAt = 1
                     THEN << SinkPrepare(Len(runs) + 1, 0, FALSE) >>
                     ELSE << SinkPrepare(Len(runs) + 1, 0, TRUE) >>
                          \o ExecuteSequence(m.segments, 1, failAt,
                                             Len(runs) + 1) )
              /\ UNCHANGED << flags, chans, active_execution, execution_rx,
                              execution_prepared >>
       ELSE LET f == FreshFlag(flags)
                c == FreshChan(chans)
            IN  /\ runs' = Append(runs, NewRun(m, f, c))
                /\ flags' = Append(flags, FALSE)
                /\ chans' = Append(
                      IF execution_rx # 0 THEN DropRx(chans, execution_rx)
                      ELSE chans,
                      [q |-> <<>>, rx_alive |-> TRUE])
                /\ execution_rx' = c
                /\ active_execution' = Len(runs) + 1
                /\ execution_prepared' = FALSE
                /\ sink' = sink
    /\ UNCHANGED << parseVars, engineVars, eventVars, should_exit, app_pc >>

\* The state the command loop of about_to_wait works on.
LoopState(failed) ==
    [active |-> active_execution, rx |-> execution_rx,
     prepared |-> execution_prepared, sink |-> sink, failed |-> failed,
     runs |-> runs, flags |-> flags]

\* (the consumer looking at the Stop Flag itself and skipping the segment)
HandleInjectUnlessStopped(st, m, fail) ==
    IF flags[runs[m.run].flag] THEN st
    ELSE [st EXCEPT !.prepared = TRUE,
                    !.sink = @ \o
                       (IF st.prepared THEN <<>>
                        ELSE << SinkPrepare(m.run, st.active, TRUE) >>)
                       \o << SinkApply(m.c.seg, m.run, st.active, TRUE) >>]

\* (execution_prepared never set)
HandleInjectNeverPrepared(st, m, fail) ==
    [st EXCEPT !.sink = @ \o << SinkPrepare(m.run, st.active, TRUE),
                                SinkApply(m.c.seg, m.run, st.active, TRUE) >>]

\* about_to_wait lines 515-543: Inject(segment).  fail says what the
\* injector refuses this time: "none", "prepare" or "apply".
HandleInject(st, m, fail) ==
    IF ~st.prepared /\ fail = "prepare"
    THEN [st EXCEPT !.sink = Append(@, SinkPrepare(m.run, st.active, FALSE)),
                    !.failed = TRUE]
    ELSE LET p == IF st.prepared THEN st
                  ELSE [st EXCEPT
                          !.sink = Append(@, SinkPrepare(m.run, st.active, TRUE)),
                          !.prepared = TRUE]
         IN  IF fail = "apply"
             THEN [p EXCEPT
                     !.sink = Append(@, SinkApply(m.c.seg, m.run, st.active, FALSE)),
                     !.failed = TRUE]
             ELSE [p EXCEPT
                     !.sink = Append(@, SinkApply(m.c.seg, m.run, st.active, TRUE))]

\* (the handle kept when the terminal command is handled)
HandleTerminalKeepHandle(st, m) ==
    [st EXCEPT !.rx = 0, !.prepared = FALSE,
               !.runs = [@ EXCEPT ![m.run].handled = m.c.cmd]]

\* (the prepared flag left as it is)
HandleTerminalKeepPrepared(st, m) ==
    [st EXCEPT !.active = 0, !.rx = 0,
               !.runs = [ [@ EXCEPT ![st.active].handle = "dropped"]
                            EXCEPT ![m.run].handled = m.c.cmd ]]

\* about_to_wait lines 544-561: Complete or Cancelled.  The handle is
\* dropped (not joined), the receiver is dropped, the flag reset.
HandleTerminal(st, m) ==
    [st EXCEPT !.active = 0, !.rx = 0, !.prepared = FALSE,
               !.runs = [ (IF st.active # 0
                           THEN [@ EXCEPT ![st.active].handle = "dropped"]
                           ELSE @)
                            EXCEPT ![m.run].handled = m.c.cmd ]]

\* about_to_wait lines 512-562: the commands are handled in order; a
\* failure breaks out of the loop.
RECURSIVE ProcessCommands(_, _, _, _, _)
ProcessCommands(cmds, k, st, failAt, failKind) ==
    IF k > Len(cmds) \/ st.failed THEN st
    ELSE LET m == cmds[k]
             st2 == IF IsInject(m.c)
                    THEN HandleInject(st, m,
                                      IF k = failAt THEN failKind ELSE "none")
                    ELSE HandleTerminal(st, m)
         IN  ProcessCommands(cmds, k + 1, st2, failAt, failKind)

\* (the failure clean-up without the stop() call)
FailureCleanupNoStop(st) ==
    IF ~st.failed THEN st
    ELSE [st EXCEPT !.active = 0, !.rx = 0, !.prepared = FALSE,
                    !.runs = IF st.active # 0
                             THEN [@ EXCEPT ![st.active].handle = "dropped",
                                            ![st.active].handled = "failed"]
                             ELSE @]

\* about_to_wait lines 564-572: after a failure the run is stopped and the
\* handle and the receiver are dropped.
FailureCleanup(st) ==
    IF ~st.failed THEN st
    ELSE [st EXCEPT !.active = 0, !.rx = 0, !.prepared = FALSE,
                    !.flags = IF st.active # 0
                              THEN StopRun(st.active, st.runs, @)
                              ELSE @,
                    !.runs = IF st.active # 0
                             THEN [@ EXCEPT ![st.active].handle = "dropped",
                                            ![st.active].stopped = TRUE,
                                            ![st.active].handled = "failed"]
                             ELSE @]

\* rx.try_iter().collect(), line 508-510: every command now in the channel.
DrainNewestFirst(q) == [k \in 1..Len(q) |-> q[Len(q) + 1 - k]]

Drain(q) == q

\* about_to_wait lines 499-572 with commands waiting: they are drained and
\* handled; the injector may refuse one operation.  (A tick that finds no
\* command changes nothing.)  The tick is one step: what the worker sends
\* while it runs is either taken by the next tick or lost with the receiver.
AppTick ==
    /\ app_pc = "loop"
    /\ ~should_exit
    /\ execution_rx # 0
    /\ chans[execution_rx].q # <<>>
    /\ LET cmds == Drain(chans[execution_rx].q)
       IN  \E failAt \in 0..Len(cmds), failKind \in {"prepare", "apply"} :
             /\ failAt = 0 => failKind = "apply"
             /\ LET st == FailureCleanup(
                            ProcessCommands(cmds, 1, LoopState(FALSE),
                                            failAt, failKind))
                IN  /\ active_execution' = st.active
                    /\ execution_rx' = st.rx
                    /\ execution_prepared' = st.prepared
                    /\ sink' = st.sink
                    /\ runs' = st.runs
                    /\ flags' = st.flags
                    /\ chans' = IF st.rx = execution_rx
                                THEN [chans EXCEPT ![execution_rx].q = <<>>]
                                ELSE DropRx(chans, execution_rx)
    /\ UNCHANGED << parseVars, engineVars, eventVars, should_exit, app_pc >>

\* History: that stop() was called on the handle of run w, and whether an
\* Inject was waiting in its channel at the first call.
NoteStop(w, q) ==
    IF w.stopped THEN w
    ELSE [w EXCEPT !.stopped = TRUE,
                   !.inflight = \E k \in 1..Len(q) : IsInject(q[k].c)]

\* user_event lines 424-431 (stop hotkey) and about_to_wait lines 880-884
\* (Stop Macro menu entry): stop() on the active handle, if there is one.
AppStopRequest ==
    /\ app_pc = "loop"
    /\ active_execution # 0
    /\ flags' = StopRun(active_execution, runs, flags)
    /\ runs' = [runs EXCEPT ![active_execution] =
                               NoteStop(@, chans[@.tx].q)]
    /\ UNCHANGED << parseVars, engineVars, eventVars,
                    chans, active_execution, execution_rx,
                    execution_prepared, should_exit, app_pc, sink >>

\* about_to_wait lines 885-894 (Quit menu entry): the active handle, if
\* any, is taken, stopped and joined, which blocks the event loop ...
AppQuit ==
    /\ app_pc = "loop"
    /\ ~should_exit
    /\ IF active_execution # 0
       THEN /\ flags' = StopRun(active_execution, runs, flags)
            /\ runs' = [runs EXCEPT ![active_execution] =
                          [NoteStop(@, chans[@.tx].q) EXCEPT
                             !.handle = "joining"]]
            /\ active_execution' = 0
            /\ app_pc' = "joining"
            /\ should_exit' = should_exit
       ELSE /\ should_exit' = TRUE
            /\ UNCHANGED << flags, runs, active_execution, app_pc >>
    /\ UNCHANGED << parseVars, engineVars, eventVars,
                    chans, execution_rx, execution_prepared, sink >>

\* ... until the worker has finished; then should_exit is set.
AppQuitJoined ==
    /\ app_pc = "joining"
    /\ \E r \in 1..Len(runs) :
         /\ runs[r].handle = "joining"
         /\ runs[r].pc = "done"
         /\ runs' = [runs EXCEPT ![r].handle = "joined"]
    /\ should_exit' = TRUE
    /\ app_pc' = "loop"
    /\ UNCHANGED << parseVars, engineVars, eventVars,
                    flags, chans, active_execution, execution_rx,
                    execution_prepared, sink >>

\* about_to_wait lines 500-504: the event loop exits; main returns and the
\* process ends with whatever threads are still running.
AppExit ==
    /\ app_pc = "loop"
    /\ should_exit
    /\ app_pc' = "exited"
    /\ UNCHANGED << parseVars, engineVars, eventVars,
                    runs, flags, chans, active_execution,
                    execution_rx, execution_prepared, should_exit, sink >>

\* The engine's single run is not used by the application's behaviours.
EngineUnused ==
    /\ segments = <<>>
    /\ delay_ms = 0
    /\ expanded = <<>>
    /\ i = 0
    /\ pc = "done"
    /\ sleep_ms = 0
    /\ elapsed = 0
    /\ sleep_kind = "none"
    /\ stop_flag = FALSE
    /\ chan = <<>>
    /\ rx_alive = FALSE
    /\ received = <<>>
    /\ handle = "joined"
    /\ emitted = <<>>
    /\ exit_site = "none"
    /\ stop_calls = 0
    /\ stop_point = NoPoint
    /\ slices_after_stop = 0
    /\ ms_after_stop = 0

InitApp == EngineUnused /\ AppIdle /\ ParserIdle

NextApp ==
    \/ \E m \in AppMacroChoices : AppTrigger(m)
    \/ \E r \in 1..Len(runs) : AppWorker(r)
    \/ AppTick
    \/ AppStopRequest
    \/ AppQuit
    \/ AppQuitJoined
    \/ AppExit

SpecApp == InitApp /\ [][NextApp]_vars

\* The application with the events that switch playback off and on and the
\* triggers that are ignored.

\* Executions started in one behaviour of SpecEvents.
MaxStarts == 2

\* n times the Return key.
Keys(n) == [k \in 1..n |-> SpecialKey("Return")]

\* Macros a trigger can fire there: a short unpaced text (synchronous) and a
\* paced key (a worker).
EventMacroChoices ==
    { [segments |-> << Text(<<"a", "b">>) >>, delay_ms |-> 0],
      [segments |-> Keys(1), delay_ms |-> 70] }

NextEvents ==
    \/ \E m \in EventMacroChoices : Len(runs) < MaxStarts /\ AppTrigger(m)
    \/ AppTriggerIgnored
    \/ \E b \in BOOLEAN : AppSetEnabled(b)
    \/ \E r \in 1..Len(runs) : AppWorker(r)
    \/ AppTick
    \/ AppStopRequest
    \/ AppQuit
    \/ AppQuitJoined
    \/ AppExit

SpecEvents == InitApp /\ [][NextEvents]_vars

\* The event loop keeps calling about_to_wait (so commands that wait are
\* drained and a requested exit is made), the OS schedules every worker
\* thread, and a join returns once its thread has finished.
SpecEventsLive ==
    /\ SpecEvents
    /\ WF_vars(AppTick)
    /\ WF_vars(AppExit)
    /\ WF_vars(AppQuitJoined)
    /\ \A r \in 1..MaxRuns : WF_vars(r <= Len(runs) /\ AppWorker(r))

\* The application with macros on both sides of each condition of the fast
\* path; stop requests and the playback switch are left out.

\* Executions started in one behaviour of SpecFastPath.
MaxTriggers == 1

\* Macros a trigger can fire there: the empty macro, a short text, ten keys
\* (all three synchronous), eleven keys, one paced key and a zero Delay
\* (workers).
TriggerMacroChoices ==
    { [segments |-> <<>>, delay_ms |-> 0],
      [segments |-> << Text(<<"a", "b">>) >>, delay_ms |-> 0],
      [segments |-> Keys(FastPathLimit), delay_ms |-> 0],
      [segments |-> Keys(FastPathLimit + 1), delay_ms |-> 0],
      [segments |-> Keys(1), delay_ms |-> 70],
      [segments |-> << Delay(0) >>, delay_ms |-> 0] }

NextFastPath ==
    \/ \E m \in TriggerMacroChoices :
         Len(runs) < MaxTriggers /\ AppTrigger(m)
    \/ \E r \in 1..Len(runs) : AppWorker(r)
    \/ AppTick
    \/ AppQuit
    \/ AppQuitJoined
    \/ AppExit

SpecFastPath == InitApp /\ [][NextFastPath]_vars

\* ---- Properties of the application's consumer -------------------------

\* What the injector was asked for on behalf of run r, in order.
SinkOf(r) == SelectSeq(sink, LAMBDA e : e.run = r)

Applies(es) == SelectSeq(es, LAMBDA e : e.op = "apply")

SegsOf(es) == [k \in 1..Len(es) |-> es[k].seg]

AsyncRuns == { r \in 1..Len(runs) : runs[r].kind = "async" }

\* C11: stop() changes the Stop Flag only and leaves the channel as it is;
\* when the consumer has handled the Cancelled of a run, every Inject that
\* run's worker sent has been applied to the sink, successfully, in the
\* order sent, and while the run was still the active one (so before the
\* Cancelled was handled).
C11_InFlightStillApplied ==
    /\ [](\A r \in AsyncRuns :
            runs[r].handled = "Cancelled" =>
              LET a == Applies(SinkOf(r))
              IN  /\ SegsOf(a) = Payloads(runs[r].emitted)
                  /\ \A k \in 1..Len(a) : a[k].ok /\ a[k].during = r)
    /\ [][(AppStopRequest \/ AppQuit) => chans' = chans /\ sink' = sink]_vars

\* A run was stopped with an Inject in its channel, and its Cancelled has
\* been handled.
C11_Witness ==
    \E r \in AsyncRuns :
        /\ runs[r].handled = "Cancelled"
        /\ runs[r].inflight
        /\ Applies(SinkOf(r)) # <<>>

\* C15: for every run the injector's prepare is invoked at most once, and
\* once the consumer has handled an Inject of the run it has been invoked
\* exactly once, before anything was applied for the run (so every later
\* Inject was applied without it); and execution_prepared does not go back
\* to false while the same run stays active.
C15_PrepareOnceFirst ==
    /\ [](\A r \in AsyncRuns :
            LET s == SinkOf(r)
            IN  s # <<>> =>
                  /\ s[1].op = "prepare"
                  /\ \A k \in 2..Len(s) : s[k].op = "apply" /\ s[1].ok)
    /\ [][(execution_prepared /\ active_execution # 0
             /\ active_execution' = active_execution)
          => execution_prepared']_vars

\* Two Injects of one run have been applied after its one prepare, and the
\* run is still active with the flag set.
C15_Witness ==
    \E r \in AsyncRuns :
        /\ Len(Applies(SinkOf(r))) >= 2
        /\ SinkOf(r)[1].op = "prepare"
        /\ active_execution = r
        /\ execution_prepared

\* The commands waiting in channel c, without their tags.
Waiting(c) == [k \in 1..Len(chans[c].q) |-> chans[c].q[k].c]

\* C16: the segments applied for a run are, in order and once each, the
\* Injects its worker sent: as long as nothing failed and the receiver is
\* kept, what has been applied followed by what still waits in the channel
\* is what was sent, and every applied segment was applied while the run
\* was active (before its terminal command was handled); when Complete has
\* been handled the sink has been given exactly the non-Delay segments of
\* the expanded macro, in order.
C16_AppliedOnceInOrder ==
    \A r \in AsyncRuns :
        LET a == Applies(SinkOf(r))
        IN  /\ IsPrefix(SegsOf(a), Payloads(runs[r].emitted))
            /\ \A k \in 1..Len(a) : a[k].during = r
            /\ (runs[r].handled = "none" /\ chans[runs[r].tx].rx_alive) =>
                  SegsOf(a) \o Payloads(Waiting(runs[r].tx))
                    = Payloads(runs[r].emitted)
            /\ runs[r].handled = "Complete" =>
                  /\ SegsOf(a)
                       = NonDelay(Expand(runs[r].segments, runs[r].delay_ms))
                  /\ \A k \in 1..Len(a) : a[k].ok

\* The Complete of a run with two Injects has been handled.
C16_Witness ==
    \E r \in AsyncRuns :
        /\ runs[r].handled = "Complete"
        /\ Len(Applies(SinkOf(r))) >= 2

\* The runs for which the injector refused a prepare or a segment.
FailedRuns == { r \in AsyncRuns : \E k \in 1..Len(sink) :
                                     sink[k].run = r /\ ~sink[k].ok }

\* C17: once the injector has refused the prepare or a segment of a run,
\* that run's Stop Flag is set, its receiver and its handle are gone, the
\* refused operation is the last thing ever asked of the injector for that
\* run (nothing more is applied, nothing is retried), and the step in which
\* the refusal happens leaves the application with no active execution, no
\* receiver and execution_prepared false.
C17_FailureAbortsRun ==
    /\ [](\A r \in FailedRuns :
            LET s == SinkOf(r)
            IN  /\ flags[runs[r].flag]
                /\ ~chans[runs[r].tx].rx_alive
                /\ execution_rx # runs[r].tx
                /\ runs[r].handle = "dropped"
                /\ active_execution # r
                /\ \A k \in 1..Len(s) : ~s[k].ok <=> k = Len(s))
    /\ [][(Len(sink') > Len(sink) /\ ~Last(sink').ok
             /\ Last(sink').run \in AsyncRuns)
          => (/\ active_execution' = 0
              /\ execution_rx' = 0
              /\ ~execution_prepared')]_vars

\* A segment was refused while a later Inject of the same run had already
\* been sent, and the worker has since returned.
C17_Witness ==
    \E r \in FailedRuns :
        /\ Len(Payloads(runs[r].emitted)) > Len(Applies(SinkOf(r)))
        /\ Last(SinkOf(r)).op = "apply"
        /\ runs[r].pc = "done"

Idle == active_execution = 0 /\ execution_rx = 0 /\ ~execution_prepared

HandledTerminal(r) == runs[r].handled \in {"Complete", "Cancelled"}

\* C18: the step in which the consumer handles the Complete or Cancelled of
\* a run ends with no active handle, no receiver and execution_prepared
\* false, and the application stays so until a trigger starts the next
\* execution (which that state permits).
C18_TerminalClearsRun ==
    /\ [](\A r \in AsyncRuns :
            (HandledTerminal(r) /\ \A x \in AsyncRuns : x <= r) => Idle)
    /\ [][(\E r \in AsyncRuns : runs[r].handled = "none"
                                  /\ runs'[r].handled \in {"Complete", "Cancelled"})
          => (active_execution' = 0 /\ execution_rx' = 0
                /\ ~execution_prepared')]_vars

\* After the Cancelled of one run and the start of a second, the second's
\* Complete has been handled as well, with segments applied in both.
C18_Witness ==
    \E r1, r2 \in AsyncRuns :
        /\ r1 < r2
        /\ runs[r1].handled = "Cancelled"
        /\ runs[r2].handled = "Complete"
        /\ Applies(SinkOf(r1)) # <<>>
        /\ Applies(SinkOf(r2)) # <<>>
        /\ Idle

\* C19: no handle returned by start_execution is discarded without having
\* been joined, and when the application has exited every such handle has
\* been joined and no worker thread is still running.
C19_JoinedBeforeExit ==
    \A r \in AsyncRuns :
        /\ runs[r].handle # "dropped"
        /\ app_pc = "exited" => runs[r].handle = "joined" /\ runs[r].pc = "done"

\* C20: every execution has a Stop Flag and a channel of its own: a command
\* waits only in the channel of the run whose worker sent it, a worker
\* returns Cancelled only if stop() was called on its own handle, and
\* whatever is applied to the sink is applied for the run that is active at
\* that moment, never for an earlier, abandoned one.
C20_RunsIsolated ==
    /\ \A r1, r2 \in AsyncRuns :
          r1 # r2 => /\ runs[r1].flag # runs[r2].flag
                     /\ runs[r1].tx # runs[r2].tx
    /\ \A c \in 1..Len(chans) : \A k \in 1..Len(chans[c].q) :
          runs[chans[c].q[k].run].tx = c
    /\ \A r \in AsyncRuns :
          runs[r].exit_site \in {"check", "delay", "pacing"} => runs[r].stopped
    /\ \A k \in 1..Len(sink) :
          sink[k].run \in AsyncRuns => sink[k].during = sink[k].run

\* A run was abandoned after a failure with an Inject of it never applied;
\* a later run, never stopped, ran to its handled Complete.
C20_Witness ==
    \E r1, r2 \in AsyncRuns :
        /\ r1 < r2
        /\ runs[r1].handled = "failed"
        /\ Len(Payloads(runs[r1].emitted)) > Len(Applies(SinkOf(r1)))
        /\ runs[r2].handled = "Complete"
        /\ ~runs[r2].stopped
        /\ Len(Applies(SinkOf(r2))) >= 2

\* =================================================== the macro DSL parser
\* src/src/injection.rs lines 361-507.

\* Option<T>
None == [some |-> FALSE]
Some(v) == [some |-> TRUE, v |-> v]

\* Result<u64, ParseIntError>
Ok(v) == [ok |-> TRUE, v |-> v]
Err(e) == [ok |-> FALSE, err |-> e]

UpperLetters ==
    << "A", "B", "C", "D", "E", "F", "G", "H", "I", "J", "K", "L", "M",
       "N", "O", "P", "Q", "R", "S", "T", "U", "V", "W", "X", "Y", "Z" >>

LowerLetters ==
    << "a", "b", "c", "d", "e", "f", "g", "h", "i", "j", "k", "l", "m",
       "n", "o", "p", "q", "r", "s", "t", "u", "v", "w", "x", "y", "z" >>

DigitChars == << "0", "1", "2", "3", "4", "5", "6", "7", "8", "9" >>

IndexIn(q, c) == IF \E k \in 1..Len(q) : q[k] = c
                 THEN CHOOSE k \in 1..Len(q) : q[k] = c
                 ELSE 0

\* (no case folding)
ToLowercaseKeep(s) == s

\* str::to_lowercase, on the letters A-Z.
ToLowercase(s) ==
    [k \in 1..Len(s) |->
        IF IndexIn(UpperLetters, s[k]) # 0
        THEN LowerLetters[IndexIn(UpperLetters, s[k])]
        ELSE s[k]]

\* char::is_whitespace, on the characters used here.
IsWhitespace(c) == c = " "

\* str::trim
RECURSIVE TrimStart(_)
TrimStart(s) ==
    IF s # <<>> /\ IsWhitespace(Head(s)) THEN TrimStart(Tail(s)) ELSE s

RECURSIVE TrimEnd(_)
TrimEnd(s) ==
    IF s # <<>> /\ IsWhitespace(s[Len(s)])
    THEN TrimEnd(SubSeq(s, 1, Len(s) - 1))
    ELSE s

Trim(s) == TrimEnd(TrimStart(s))

\* The position of the first c in s, 0 if there is none.
FirstIndex(s, c) ==
    IF \E k \in 1..Len(s) : s[k] = c
    THEN CHOOSE k \in 1..Len(s) : s[k] = c /\ \A j \in 1..(k - 1) : s[j] # c
    ELSE 0

\* key_name.splitn(2, ' '): parts[0] and parts.get(1).
SplitN2(s) ==
    LET sp == FirstIndex(s, " ")
    IN  IF sp = 0 THEN [head |-> s, rest |-> None]
        ELSE [head |-> SubSeq(s, 1, sp - 1),
              rest |-> Some(SubSeq(s, sp + 1, Len(s)))]

\* u64::MAX = 18446744073709551615, digit by digit.
U64MaxDigits == << 1, 8, 4, 4, 6, 7, 4, 4, 0, 7, 3, 7, 0, 9, 5, 5, 1, 6, 1, 5 >>

DigitValues(s) == [k \in 1..Len(s) |-> IndexIn(DigitChars, s[k]) - 1]

RECURSIVE StripZeros(_)
StripZeros(d) == IF d # <<>> /\ Head(d) = 0 THEN StripZeros(Tail(d)) ELSE d

\* d <= e for digit sequences of the same length.
RECURSIVE DigitsLeq(_, _)
DigitsLeq(d, e) ==
    IF d = <<>> THEN TRUE
    ELSE IF Head(d) # Head(e) THEN Head(d) < Head(e)
    ELSE DigitsLeq(Tail(d), Tail(e))

\* (the length test made on the digits as written, leading zeros included)
FitsU64Unstripped(d) ==
    \/ Len(d) < Len(U64MaxDigits)
    \/ Len(d) = Len(U64MaxDigits) /\ DigitsLeq(d, U64MaxDigits)

\* The number written by the digits d is at most u64::MAX.
FitsU64(d) ==
    LET m == StripZeros(d)
    IN  \/ Len(m) < Len(U64MaxDigits)
        \/ Len(m) = Len(U64MaxDigits) /\ DigitsLeq(m, U64MaxDigits)

RECURSIVE DecValue(_, _)
DecValue(d, acc) ==
    IF d = <<>> THEN acc ELSE DecValue(Tail(d), acc * 10 + Head(d))

\* str::parse::<u64>: an optional '+', then one or more decimal digits, the
\* value within u64.
ParseU64(s) ==
    IF s = <<>> THEN Err("Empty")
    ELSE IF s = <<"+">> \/ s = <<"-">> THEN Err("InvalidDigit")
    ELSE LET body == IF Head(s) = "+" THEN Tail(s) ELSE s
         IN  IF \E k \in 1..Len(body) : IndexIn(DigitChars, body[k]) = 0
             THEN Err("InvalidDigit")
             ELSE IF ~FitsU64(DigitValues(body)) THEN Err("PosOverflow")
             ELSE Ok(DecValue(StripZeros(DigitValues(body)), 0))

\* Result::ok
ResultOk(r) == IF r.ok THEN Some(r.v) ELSE None


\* special_key_from_name, lines 471-489: the names after to_lowercase.
SpecialKeyNames ==
    { << <<"e", "n", "t", "e", "r">>, "Return" >>,
      << <<"r", "e", "t", "u", "r", "n">>, "Return" >>,
      << <<"t", "a", "b">>, "Tab" >>,
      << <<"e", "s", "c", "a", "p", "e">>, "Escape" >>,
      << <<"e", "s", "c">>, "Escape" >>,
      << <<"b", "a", "c", "k", "s", "p", "a", "c", "e">>, "Backspace" >>,
      << <<"d", "e", "l", "e", "t", "e">>, "Delete" >>,
      << <<"d", "e", "l">>, "Delete" >>,
      << <<"u", "p">>, "UpArrow" >>,
      << <<"d", "o", "w", "n">>, "DownArrow" >>,
      << <<"l", "e", "f", "t">>, "LeftArrow" >>,
      << <<"r", "i", "g", "h", "t">>, "RightArrow" >>,
      << <<"h", "o", "m", "e">>, "Home" >>,
      << <<"e", "n", "d">>, "End" >>,
      << <<"p", "a", "g", "e", "u", "p">>, "PageUp" >>,
      << <<"p", "g", "u", "p">>, "PageUp" >>,
      << <<"p", "a", "g", "e", "d", "o", "w", "n">>, "PageDown" >>,
      << <<"p", "g", "d", "n">>, "PageDown" >>,
      << <<"s", "p", "a", "c", "e">>, "Space" >> }

\* (the short form "esc" forgotten)
SpecialKeyFromNameNoEsc(name) ==
    LET l == ToLowercase(name)
    IN  IF l # <<"e", "s", "c">> /\ \E p \in SpecialKeyNames : p[1] = l
        THEN Some((CHOOSE p \in SpecialKeyNames : p[1] = l)[2])
        ELSE None

SpecialKeyFromName(name) ==
    LET l == ToLowercase(name)
    IN  IF \E p \in SpecialKeyNames : p[1] = l
        THEN Some((CHOOSE p \in SpecialKeyNames : p[1] = l)[2])
        ELSE None

\* modifier_key_from_name, lines 495-507: the names after to_lowercase.
ModifierKeyNames ==
    { << <<"c", "t", "r", "l">>, "Control" >>,
      << <<"c", "o", "n", "t", "r", "o", "l">>, "Control" >>,
      << <<"s", "h", "i", "f", "t">>, "Shift" >>,
      << <<"a", "l", "t">>, "Alt" >>,
      << <<"m", "e", "t", "a">>, "Meta" >>,
      << <<"w", "i", "n">>, "Meta" >>,
      << <<"c", "m", "d">>, "Meta" >>,
      << <<"c", "o", "m", "m", "a", "n", "d">>, "Meta" >>,
      << <<"s", "u", "p", "e", "r">>, "Meta" >>,
      << <<"l", "c", "t", "r", "l">>, "LControl" >>,
      << <<"l", "c", "o", "n", "t", "r", "o", "l">>, "LControl" >>,
      << <<"r", "c", "t", "r", "l">>, "RControl" >>,
      << <<"r", "c", "o", "n", "t", "r", "o", "l">>, "RControl" >>,
      << <<"l", "s", "h", "i", "f", "t">>, "LShift" >>,
      << <<"r", "s", "h", "i", "f", "t">>, "RShift" >> }

\* (the "super" alias left out)
ModifierKeyFromNameNoSuper(name) ==
    LET l == ToLowercase(name)
        known == { p \in ModifierKeyNames : p[1] # <<"s", "u", "p", "e", "r">> }
    IN  IF \E p \in known : p[1] = l
        THEN Some((CHOOSE p \in known : p[1] = l)[2])
        ELSE None

ModifierKeyFromName(name) ==
    LET l == ToLowercase(name)
    IN  IF \E p \in ModifierKeyNames : p[1] = l
        THEN Some((CHOOSE p \in ModifierKeyNames : p[1] = l)[2])
        ELSE None

WordDelay == <<"d", "e", "l", "a", "y">>
WordKeyDown == <<"k", "e", "y", "d", "o", "w", "n">>
WordKeyUp == <<"k", "e", "y", "u", "p">>
WordPaste == <<"p", "a", "s", "t", "e">>

\* parse_command, lines 435-466.
ParseCommand(key_name) ==
    LET parts == SplitN2(key_name)
        command == ToLowercase(parts.head)
        arg == IF parts.rest.some THEN Some(Trim(parts.rest.v)) ELSE None
    IN  CASE command = WordDelay ->
               IF arg.some /\ ResultOk(ParseU64(arg.v)).some
               THEN Some(Delay(ResultOk(ParseU64(arg.v)).v))
               ELSE None
          [] command = WordKeyDown ->
               IF arg.some /\ ModifierKeyFromName(arg.v).some
               THEN Some(KeyDown(ModifierKeyFromName(arg.v).v))
               ELSE None
          [] command = WordKeyUp ->
               IF arg.some /\ ModifierKeyFromName(arg.v).some
               THEN Some(KeyUp(ModifierKeyFromName(arg.v).v))
               ELSE None
          [] command = WordPaste -> Some(Paste)
          [] OTHER ->
               IF SpecialKeyFromName(key_name).some
               THEN Some(SpecialKey(SpecialKeyFromName(key_name).v))
               ELSE None

\* (peek where next was meant: nothing is consumed)
ChPeekOnly(n) == n

\* chars.next() of the outer loop, line 366: one more character consumed.
ChNext(n) == n + 1

\* chars.peek() with n characters consumed.
Peek(inp, n) == IF n < Len(inp) THEN Some(inp[n + 1]) ELSE None

\* The inner loop, lines 379-386, entered with n characters consumed: the
\* characters up to the next '}' go to key_name and the '}' is consumed;
\* without a '}' everything left goes to key_name.
ScanBody(inp, n) ==
    LET rest == SubSeq(inp, n + 1, Len(inp))
        close == FirstIndex(rest, "}")
    IN  IF close # 0
        THEN [key_name |-> SubSeq(rest, 1, close - 1), found_close |-> TRUE,
              chars |-> n + close]
        ELSE [key_name |-> rest, found_close |-> FALSE, chars |-> Len(inp)]

\* (every flush pushes a Text, empty or not)
FlushTextAlways(text, segs) == Append(segs, Text(text))

\* flush_text, lines 424-430: the segments afterwards (the text is cleared).
FlushText(text, segs) ==
    IF text # <<>> THEN Append(segs, Text(text)) ELSE segs

\* The character taken by `while let Some(c) = chars.next()`.
CurrentChar == input[chars + 1]

InLoop == parse_pc = "loop" /\ chars < Len(input)

\* Lines 367-373: "{{" is one literal '{'.
ParseEscapedOpen ==
    /\ InLoop
    /\ CurrentChar = "{"
    /\ Peek(input, ChNext(chars)) = Some("{")
    /\ chars' = ChNext(chars) + 1
    /\ current_text' = Append(current_text, "{")
    /\ UNCHANGED << engineVars, appVars, input, recipe, parse_segments,
                    parse_pc >>

\* Lines 375-393: '{', a body and '}' that parse_command recognises: the
\* text so far is flushed and the segment pushed.
ParseRecognized ==
    /\ InLoop
    /\ CurrentChar = "{"
    /\ Peek(input, ChNext(chars)) # Some("{")
    /\ LET b == ScanBody(input, ChNext(chars))
       IN  /\ b.found_close
           /\ ParseCommand(b.key_name).some
           /\ parse_segments' = Append(FlushText(current_text, parse_segments),
                                       ParseCommand(b.key_name).v)
           /\ current_text' = <<>>
           /\ chars' = b.chars
    /\ UNCHANGED << engineVars, appVars, input, recipe, parse_pc >>

\* (the closing brace forgotten)
ParseFallbackDropClose ==
    /\ InLoop
    /\ CurrentChar = "{"
    /\ Peek(input, ChNext(chars)) # Some("{")
    /\ LET b == ScanBody(input, ChNext(chars))
       IN  /\ b.found_close
           /\ ~ParseCommand(b.key_name).some
           /\ current_text' = current_text \o <<"{">> \o b.key_name
           /\ chars' = b.chars
    /\ UNCHANGED << engineVars, appVars, input, recipe, parse_segments,
                    parse_pc >>

\* Lines 394-398: a closed body that is no command stays literal text.
ParseFallback ==
    /\ InLoop
    /\ CurrentChar = "{"
    /\ Peek(input, ChNext(chars)) # Some("{")
    /\ LET b == ScanBody(input, ChNext(chars))
       IN  /\ b.found_close
           /\ ~ParseCommand(b.key_name).some
           /\ current_text' = current_text \o <<"{">> \o b.key_name \o <<"}">>
           /\ chars' = b.chars
    /\ UNCHANGED << engineVars, appVars, input, recipe, parse_segments,
                    parse_pc >>

\* (the '{' itself not put back)
ParseUnclosedDropOpen ==
    /\ InLoop
    /\ CurrentChar = "{"
    /\ Peek(input, ChNext(chars)) # Some("{")
    /\ LET b == ScanBody(input, ChNext(chars))
       IN  /\ ~b.found_close
           /\ current_text' = current_text \o b.key_name
           /\ chars' = b.chars
    /\ UNCHANGED << engineVars, appVars, input, recipe, parse_segments,
                    parse_pc >>

\* Lines 399-403: no '}' before the end of the input.
ParseUnclosed ==
    /\ InLoop
    /\ CurrentChar = "{"
    /\ Peek(input, ChNext(chars)) # Some("{")
    /\ LET b == ScanBody(input, ChNext(chars))
       IN  /\ ~b.found_close
           /\ current_text' = current_text \o <<"{">> \o b.key_name
           /\ chars' = b.chars
    /\ UNCHANGED << engineVars, appVars, input, recipe, parse_segments,
                    parse_pc >>

\* Lines 404-410: "}}" is one literal '}'.
ParseEscapedClose ==
    /\ InLoop
    /\ CurrentChar = "}"
    /\ Peek(input, ChNext(chars)) = Some("}")
    /\ chars' = ChNext(chars) + 1
    /\ current_text' = Append(current_text, "}")
    /\ UNCHANGED << engineVars, appVars, input, recipe, parse_segments,
                    parse_pc >>

\* Lines 411-412: a lone '}'.
ParseLoneClose ==
    /\ InLoop
    /\ CurrentChar = "}"
    /\ Peek(input, ChNext(chars)) # Some("}")
    /\ chars' = ChNext(chars)
    /\ current_text' = Append(current_text, "}")
    /\ UNCHANGED << engineVars, appVars, input, recipe, parse_segments,
                    parse_pc >>

\* Lines 413-415: any other character.
ParsePlain ==
    /\ InLoop
    /\ CurrentChar \notin {"{", "}"}
    /\ chars' = ChNext(chars)
    /\ current_text' = Append(current_text, CurrentChar)
    /\ UNCHANGED << engineVars, appVars, input, recipe, parse_segments,
                    parse_pc >>

\* Lines 418-421: the input is used up; the remaining text is flushed and
\* the segments are returned.
ParseReturn ==
    /\ parse_pc = "loop"
    /\ chars >= Len(input)
    /\ parse_segments' = FlushText(current_text, parse_segments)
    /\ current_text' = <<>>
    /\ parse_pc' = "done"
    /\ UNCHANGED << engineVars, appVars, input, recipe, chars >>

NextParse ==
    \/ ParseEscapedOpen
    \/ ParseRecognized
    \/ ParseFallback
    \/ ParseUnclosed
    \/ ParseEscapedClose
    \/ ParseLoneClose
    \/ ParsePlain
    \/ ParseReturn

\* ------------------------------------------------------ the parser's inputs
\* Longest input made of tokens.
MaxTokens == 5

\* Pieces the structural inputs are made of: braces, a letter, a space and
\* the name of a special key.
TokenChoices == { <<"{">>, <<"}">>, <<"a">>, <<" ">>, <<"u", "p">> }

RECURSIVE Flatten(_)
Flatten(q) == IF q = <<>> THEN <<>> ELSE Head(q) \o Flatten(Tail(q))

ToUpperChar(c) ==
    IF IndexIn(LowerLetters, c) # 0
    THEN UpperLetters[IndexIn(LowerLetters, c)]
    ELSE c

\* Every way of writing the lowercase word w in upper and lower case.
RECURSIVE CaseVariants(_)
CaseVariants(w) ==
    IF w = <<>> THEN {<<>>}
    ELSE { <<c>> \o r : c \in {Head(w), ToUpperChar(Head(w))},
                        r \in CaseVariants(Tail(w)) }

SpecialKeyWords == { p[1] : p \in SpecialKeyNames }
ModifierWords == { p[1] : p \in ModifierKeyNames }

\* Bodies naming a special key.
KeyBodies == UNION { CaseVariants(k) : k \in SpecialKeyWords }

\* Bodies "keydown m" and "keyup m".
ModBodies ==
    UNION { { c \o <<" ">> \o m : c \in CaseVariants(cw), m \in ModifierWords }
            \cup
            { cw \o <<" ">> \o m : m \in UNION { CaseVariants(x) :
                                                  x \in ModifierWords } }
            : cw \in {WordKeyDown, WordKeyUp} }

\* Arguments written after "delay ".
DelayArgs ==
    { <<"0">>, <<"5">>, <<"0", "0", "7">>, <<"5", "0", "0">>, <<"+", "5">>,
      <<"-", "5">>, <<"5", "x">>, <<>>, <<" ", "5">>, <<"5", " ">>,
      <<"a", "b", "c">>, <<"1", " ", "2">>, <<"+">>,
      <<"1", "8", "4", "4", "6", "7", "4", "4", "0", "7", "3", "7", "0", "9", "5", "5", "1", "6", "1", "6">>,
      <<"9", "9", "9", "9", "9", "9", "9", "9", "9", "9", "9", "9", "9", "9", "9", "9", "9", "9", "9", "9">>,
      <<"0", "0", "0", "0", "0", "0", "0", "0", "0", "0", "0", "0", "0", "0", "0", "0", "0", "0", "0", "0", "7">> }

\* Bodies "delay N" and "delay" alone.
DelayBodies == { WordDelay \o <<" ">> \o a : a \in DelayArgs } \cup { WordDelay }

\* Bodies "paste", alone and followed by something.
PasteBodies ==
    { WordPaste, WordPaste \o <<" ">>, WordPaste \o <<" ", "x">>,
      <<"P", "a", "s", "t", "e", " ", "5">>, WordPaste \o <<"s">> }

\* Bodies that are no command.
OtherBodies ==
    { <<"f", "o", "o">>, <<>>, <<"k", "e", "y", "d", "o", "w", "n">>,
      <<"k", "e", "y", "d", "o", "w", "n", " ", "f", "o", "o">>,
      <<"k", "e", "y", "u", "p">>, <<"k", "e", "y", "u", "p", " ", "x">>,
      <<"K", "e", "y", "D", "o", "w", "n">>,
      <<"k", "e", "y", "d", "o", "w", "n", " ">>,
      <<"e", "n", "t", "e", "r", " ", "x">>,
      <<" ", "e", "n", "t", "e", "r">>, <<"e", "n", "t", "e">>,
      <<"d", "e", "l", "a", "y", "s", " ", "5">>,
      <<"k", "e", "y", " ", "d", "o", "w", "n", " ", "c", "t", "r", "l">>,
      <<"k", "e", "y", "d", "o", "w", "n", "c", "t", "r", "l">>,
      <<"D", "e", "l", "a", "y", " ", "a", "b", "c">> }

\* The bodies tried with text around them: every command in lower case,
\* and the bodies that are no command.
BodyChoices ==
    SpecialKeyWords
    \cup { cw \o <<" ">> \o m : cw \in {WordKeyDown, WordKeyUp},
                                m \in ModifierWords }
    \cup DelayBodies \cup PasteBodies \cup OtherBodies

\* The bodies tried in every letter case.
CaseBodies ==
    KeyBodies \cup ModBodies
    \cup { c \o <<" ", "5">> : c \in CaseVariants(WordDelay) }
    \cup CaseVariants(WordPaste)

\* Literal text around a command.
Affixes ==
    { <<>>, <<"x">>, <<"H", "i", " ">> }

\* Bodies put next to each other.
PairBodies ==
    { <<"E", "n", "t", "e", "r">>, <<"t", "a", "b">>,
      <<"D", "e", "l", "a", "y", " ", "5">>,
      <<"K", "e", "y", "D", "o", "w", "n", " ", "C", "t", "r", "l">>,
      <<"K", "e", "y", "U", "p", " ", "C", "t", "r", "l">>,
      <<"P", "a", "s", "t", "e">>, <<"f", "o", "o">> }

Braced(b) == <<"{">> \o b \o <<"}">>

Recipes ==
    { [kind |-> "tokens", toks |-> q] : q \in SeqsUpTo(TokenChoices, MaxTokens) }
    \cup
    { [kind |-> "cmd", pre |-> a, body |-> b, post |-> c] :
        a \in Affixes, b \in BodyChoices, c \in Affixes }
    \cup
    { [kind |-> "cmd", pre |-> <<>>, body |-> b, post |-> <<>>] :
        b \in CaseBodies }
    \cup
    { [kind |-> "pair", pre |-> a, body |-> b, mid |-> m, body2 |-> b2,
       post |-> c] :
        a \in {<<>>, <<"x">>}, b \in PairBodies, m \in {<<>>, <<"c">>},
        b2 \in PairBodies, c \in {<<>>, <<"x">>} }

\* The input text of a recipe.
Build(r) ==
    CASE r.kind = "tokens" -> Flatten(r.toks)
      [] r.kind = "cmd" -> r.pre \o Braced(r.body) \o r.post
      [] r.kind = "pair" ->
           r.pre \o Braced(r.body) \o r.mid \o Braced(r.body2) \o r.post

\* parse_macro_sequence(input) is entered: lines 361-364.
InitParse ==
    /\ EngineUnused
    /\ AppIdle
    /\ recipe \in Recipes
    /\ input = Build(recipe)
    /\ chars = 0
    /\ current_text = <<>>
    /\ parse_segments = <<>>
    /\ parse_pc = "loop"

SpecParse == InitParse /\ [][NextParse]_vars

\* ---- Properties of the parser -----------------------------------------

ParseDone == parse_pc = "done"

KeyValues == { p[2] : p \in SpecialKeyNames }
ModifierValues == { p[2] : p \in ModifierKeyNames }

\* A MacroSegment value.
IsMacroSegment(seg) ==
    \/ seg.type = "Text" /\ DOMAIN seg = {"type", "text"}
                         /\ seg.text \in Seq({seg.text[k] : k \in 1..Len(seg.text)})
    \/ seg.type = "SpecialKey" /\ seg.key \in KeyValues
    \/ seg.type = "Delay" /\ seg.ms \in Nat
    \/ seg.type \in {"KeyDown", "KeyUp"} /\ seg.key \in ModifierValues
    \/ seg = Paste

\* C21: parse_macro_sequence is total: every iteration of its loop consumes
\* at least one character and never more than the input has (so the loop
\* ends after at most Len(input) rounds), there is no error exit, and it
\* returns, with the whole input consumed, a sequence of segments.
C21_ParseTotal ==
    /\ [][parse_pc = "loop" =>
            \/ parse_pc' = "done" /\ chars = Len(input)
            \/ parse_pc' = "loop" /\ chars < chars' /\ chars' <= Len(input)]_vars
    /\ [](parse_pc \in {"loop", "done"})
    /\ [](ParseDone =>
            /\ chars = Len(input)
            /\ \A k \in 1..Len(parse_segments) :
                  IsMacroSegment(parse_segments[k]))

\* The parser has returned for an input of unbalanced, repeated braces.
C21_Witness ==
    /\ ParseDone
    /\ input = <<"}", "{", "{", "{", "a">>
    /\ parse_segments = << Text(<<"}", "{", "{", "a">>) >>

\* The name and the argument of a body as the documentation describes them:
\* lower-cased text before the first space, text after it.
NameOf(body) ==
    ToLowercase(IF FirstIndex(body, " ") = 0 THEN body
                ELSE SubSeq(body, 1, FirstIndex(body, " ") - 1))

HasArg(body) == FirstIndex(body, " ") # 0

ArgOf(body) == SubSeq(body, FirstIndex(body, " ") + 1, Len(body))

CommandWords == {WordDelay, WordKeyDown, WordKeyUp, WordPaste}

\* a is a number written in decimal, with or without a sign.
IsDecimalNumber(a) ==
    /\ a # <<>>
    /\ LET d == IF Head(a) \in {"+", "-"} THEN Tail(a) ELSE a
       IN  d # <<>> /\ \A k \in 1..Len(d) : IndexIn(DigitChars, d[k]) # 0

\* The bodies the fallback rule names: an unknown name, delay without a
\* number, keydown or keyup without a known modifier.
NotACommand(body) ==
    \/ NameOf(body) \notin CommandWords
         /\ ToLowercase(body) \notin SpecialKeyWords
    \/ NameOf(body) = WordDelay
         /\ (~HasArg(body) \/ ~IsDecimalNumber(Trim(ArgOf(body))))
    \/ NameOf(body) \in {WordKeyDown, WordKeyUp}
         /\ (~HasArg(body)
             \/ ToLowercase(Trim(ArgOf(body))) \notin ModifierWords)

\* The position in the input of the first '}' after position n, 0 if none.
CloseAfter(n) ==
    IF \E k \in (n + 1)..Len(input) : input[k] = "}"
    THEN CHOOSE k \in (n + 1)..Len(input) :
           input[k] = "}" /\ \A j \in (n + 1)..(k - 1) : input[j] # "}"
    ELSE 0

\* The loop is at a '{' that is not the first of "{{".
AtCommandOpen ==
    /\ parse_pc = "loop"
    /\ chars < Len(input)
    /\ input[chars + 1] = "{"
    /\ ~(chars + 1 < Len(input) /\ input[chars + 2] = "{")

HasBraces(s) == \E k \in 1..Len(s) : s[k] \in {"{", "}"}

\* C22: at a '{' followed by a body and a '}' where the body is not a
\* command (unknown name, delay without a numeric argument, keydown/keyup
\* without a known modifier) the parser appends the input's characters from
\* '{' to '}' unchanged to the current text and pushes no segment; so an
\* input of literal text around one such body is returned as one Text
\* equal to the input.
C22_FallbackLiteral ==
    /\ [][(AtCommandOpen /\ CloseAfter(chars + 1) # 0
             /\ NotACommand(SubSeq(input, chars + 2,
                                   CloseAfter(chars + 1) - 1)))
          => (/\ current_text'
                   = current_text
                       \o SubSeq(input, chars + 1, CloseAfter(chars + 1))
              /\ parse_segments' = parse_segments
              /\ chars' = CloseAfter(chars + 1))]_vars
    /\ []((ParseDone /\ recipe.kind = "cmd" /\ NotACommand(recipe.body))
            => parse_segments = << Text(input) >>)

\* "x{Delay abc}Hi " has been parsed.
C22_Witness ==
    /\ ParseDone
    /\ recipe.kind = "cmd"
    /\ recipe.body = <<"D", "e", "l", "a", "y", " ", "a", "b", "c">>
    /\ recipe.pre = <<"x">>
    /\ recipe.post = <<"H", "i", " ">>
    /\ parse_segments = << Text(input) >>

\* The text with every "{{" replaced by '{' and every "}}" by '}', pairs
\* taken from left to right.
RECURSIVE CollapsePairs(_)
CollapsePairs(t) ==
    IF t = <<>> THEN <<>>
    ELSE IF Len(t) >= 2 /\ t[1] \in {"{", "}"} /\ t[2] = t[1]
         THEN <<t[1]>> \o CollapsePairs(SubSeq(t, 3, Len(t)))
         ELSE <<t[1]>> \o CollapsePairs(Tail(t))

\* The literal text of a result, its Text segments joined.
RECURSIVE LiteralText(_)
LiteralText(segs) ==
    IF segs = <<>> THEN <<>>
    ELSE (IF IsText(Head(segs)) THEN Head(segs).text ELSE <<>>)
         \o LiteralText(Tail(segs))

OnlyText(segs) == \A k \in 1..Len(segs) : IsText(segs[k])

\* Every '{' of the text has a '}' somewhere after it.
NoOpenTail(t) ==
    \A k \in 1..Len(t) : t[k] = "{" => \E j \in (k + 1)..Len(t) : t[j] = "}"

\* C23: every "{{" of the input yields exactly one literal '{' and every
\* "}}" exactly one literal '}', wherever the pair stands, inside a
\* brace-delimited body too: when the whole input comes out as literal text
\* (and no '{' is left without a '}' after it), that text is the input with
\* each pair replaced by the single brace.
C23_EscapesEverywhere ==
    (ParseDone /\ OnlyText(parse_segments) /\ NoOpenTail(input))
        => LiteralText(parse_segments) = CollapsePairs(input)

\* C24: the segments pushed so far never hold an empty Text nor two Text
\* segments next to each other (so all literal characters between two
\* non-text segments are in one Text); and an input without braces is
\* returned as the one segment Text(input), the empty input as no segment.
C24_Coalesced ==
    /\ \A k \in 1..Len(parse_segments) :
          IsText(parse_segments[k]) =>
             /\ parse_segments[k].text # <<>>
             /\ k < Len(parse_segments) => ~IsText(parse_segments[k + 1])
    /\ (ParseDone /\ ~HasBraces(input)) =>
          parse_segments = IF input = <<>> THEN <<>> ELSE << Text(input) >>

\* "x{Enter}c{foo}x" has been parsed: the text after the key holds a plain
\* character, a fallback body and another plain character.
C24_Witness ==
    /\ ParseDone
    /\ recipe.kind = "pair"
    /\ input = <<"x">> \o Braced(<<"E", "n", "t", "e", "r">>) \o <<"c">> \o Braced(<<"f", "o", "o">>) \o <<"x">>
    /\ parse_segments
         = << Text(<<"x">>), SpecialKey("Return"),
              Text(<<"c">> \o Braced(<<"f", "o", "o">>) \o <<"x">>) >>

\* The documented special-key names and the key each stands for.
DocumentedKeyNames ==
    { <<"e", "n", "t", "e", "r">>,
      <<"r", "e", "t", "u", "r", "n">>,
      <<"t", "a", "b">>,
      <<"e", "s", "c", "a", "p", "e">>,
      <<"e", "s", "c">>,
      <<"b", "a", "c", "k", "s", "p", "a", "c", "e">>,
      <<"d", "e", "l", "e", "t", "e">>,
      <<"d", "e", "l">>,
      <<"u", "p">>,
      <<"d", "o", "w", "n">>,
      <<"l", "e", "f", "t">>,
      <<"r", "i", "g", "h", "t">>,
      <<"h", "o", "m", "e">>,
      <<"e", "n", "d">>,
      <<"p", "a", "g", "e", "u", "p">>,
      <<"p", "g", "u", "p">>,
      <<"p", "a", "g", "e", "d", "o", "w", "n">>,
      <<"p", "g", "d", "n">>,
      <<"s", "p", "a", "c", "e">> }

DocumentedKey(k) ==
    CASE k \in {<<"e", "n", "t", "e", "r">>, <<"r", "e", "t", "u", "r", "n">>} -> "Return"
      [] k = <<"t", "a", "b">> -> "Tab"
      [] k \in {<<"e", "s", "c", "a", "p", "e">>, <<"e", "s", "c">>} -> "Escape"
      [] k = <<"b", "a", "c", "k", "s", "p", "a", "c", "e">> -> "Backspace"
      [] k \in {<<"d", "e", "l", "e", "t", "e">>, <<"d", "e", "l">>} -> "Delete"
      [] k = <<"u", "p">> -> "UpArrow"
      [] k = <<"d", "o", "w", "n">> -> "DownArrow"
      [] k = <<"l", "e", "f", "t">> -> "LeftArrow"
      [] k = <<"r", "i", "g", "h", "t">> -> "RightArrow"
      [] k = <<"h", "o", "m", "e">> -> "Home"
      [] k = <<"e", "n", "d">> -> "End"
      [] k \in {<<"p", "a", "g", "e", "u", "p">>, <<"p", "g", "u", "p">>} -> "PageUp"
      [] k \in {<<"p", "a", "g", "e", "d", "o", "w", "n">>, <<"p", "g", "d", "n">>} -> "PageDown"
      [] k = <<"s", "p", "a", "c", "e">> -> "Space"

\* A literal text as it appears in a result: one Text, or nothing if empty.
TextIf(t) == IF t = <<>> THEN <<>> ELSE << Text(t) >>

\* C25: for texts a, b without braces and a documented key name k,
\* parse(a + "{k}" + b) = [Text(a), SpecialKey(key(k)), Text(b)] with empty
\* texts left out; and two key commands with text m between them (or none)
\* give the two keys in input order with Text(m) between them (or nothing).
C25_SpecialKeyInText ==
    /\ (ParseDone /\ recipe.kind = "cmd"
          /\ recipe.body \in DocumentedKeyNames) =>
          parse_segments
            = TextIf(recipe.pre)
                \o << SpecialKey(DocumentedKey(recipe.body)) >>
                \o TextIf(recipe.post)
    /\ (ParseDone /\ recipe.kind = "pair"
          /\ ToLowercase(recipe.body) \in DocumentedKeyNames
          /\ ToLowercase(recipe.body2) \in DocumentedKeyNames) =>
          parse_segments
            = TextIf(recipe.pre)
                \o << SpecialKey(DocumentedKey(ToLowercase(recipe.body))) >>
                \o TextIf(recipe.mid)
                \o << SpecialKey(DocumentedKey(ToLowercase(recipe.body2))) >>
                \o TextIf(recipe.post)

\* "Hi {esc}x" has been parsed.
C25_Witness ==
    /\ ParseDone
    /\ recipe.kind = "cmd"
    /\ recipe.pre = <<"H", "i", " ">>
    /\ recipe.body = <<"e", "s", "c">>
    /\ recipe.post = <<"x">>
    /\ parse_segments
         = << Text(<<"H", "i", " ">>), SpecialKey("Escape"), Text(<<"x">>) >>

\* ---------------------------------------------------------------------------
\* {Delay N}
\* ---------------------------------------------------------------------------

\* a is a non-negative integer written in decimal: one or more digits.
AllDigits(a) ==
    a # <<>> /\ \A k \in 1..Len(a) : IndexIn(DigitChars, a[k]) # 0

RECURSIVE Pow10(_)
Pow10(n) == IF n = 0 THEN 1 ELSE 10 * Pow10(n - 1)

RECURSIVE PlaceSum(_, _)
PlaceSum(m, k) ==
    IF k > Len(m) THEN 0
    ELSE m[k] * Pow10(Len(m) - k) + PlaceSum(m, k + 1)

\* The number a writes, digit by place value.
NumberOf(a) == PlaceSum(StripZeros(DigitValues(a)), 1)

\* The number a writes is at most 2^64 - 1 = 18446744073709551615.
WithinU64(a) ==
    LET m == StripZeros(DigitValues(a))
    IN  \/ Len(m) < 20
        \/ Len(m) = 20 /\ DigitsLeq(m, U64MaxDigits)

\* The body is the word delay (any case), one space, and a decimal number.
IsDelayN(body) ==
    /\ HasArg(body)
    /\ NameOf(body) = WordDelay
    /\ AllDigits(ArgOf(body))

\* Numbers the model can evaluate (the model checker's integers are 32-bit).
Evaluable(a) == Len(StripZeros(DigitValues(a))) <= 9

\* C26 (as stated): for every non-negative integer N written in decimal,
\* parsing "{Delay N}" gives exactly [Delay(N)].
C26_DelayAnyN ==
    (ParseDone /\ recipe.kind = "cmd" /\ IsDelayN(recipe.body)
        /\ recipe.pre = <<>> /\ recipe.post = <<>>)
    => /\ Len(parse_segments) = 1
       /\ parse_segments[1].type = "Delay"
       /\ Evaluable(ArgOf(recipe.body))
             => parse_segments[1].ms = NumberOf(ArgOf(recipe.body))

\* C26 (amended): for every N of at most 2^64 - 1 written in decimal (leading
\* zeros allowed), parsing "{Delay N}" gives exactly [Delay(N)], the value
\* preserved and the body split at its first space (brace-free text before
\* or after the command stays a Text segment of its own); for N above
\* 2^64 - 1 the body is not a command and the whole input comes back as
\* literal text.
C26_DelayWithinU64 ==
    (ParseDone /\ recipe.kind = "cmd" /\ IsDelayN(recipe.body))
    => IF WithinU64(ArgOf(recipe.body))
       THEN parse_segments
              = TextIf(recipe.pre)
                  \o << Delay(NumberOf(ArgOf(recipe.body))) >>
                  \o TextIf(recipe.post)
       ELSE parse_segments = << Text(input) >>

C26_Witness ==
    /\ ParseDone
    /\ input = Braced(WordDelay \o << " ", "5", "0", "0" >>)
    /\ parse_segments = << Delay(500) >>
\* ---------------------------------------------------------------------------
\* {KeyDown m} and {KeyUp m}
\* ---------------------------------------------------------------------------

\* The documented modifier names, by the modifier they stand for.
ControlNames == { <<"c", "t", "r", "l">>, <<"c", "o", "n", "t", "r", "o", "l">> }
ShiftNames == { <<"s", "h", "i", "f", "t">> }
AltNames == { <<"a", "l", "t">> }
MetaNames ==
    { <<"m", "e", "t", "a">>, <<"w", "i", "n">>, <<"c", "m", "d">>,
      <<"c", "o", "m", "m", "a", "n", "d">>, <<"s", "u", "p", "e", "r">> }
LControlNames ==
    { <<"l", "c", "t", "r", "l">>, <<"l", "c", "o", "n", "t", "r", "o", "l">> }
RControlNames ==
    { <<"r", "c", "t", "r", "l">>, <<"r", "c", "o", "n", "t", "r", "o", "l">> }
LShiftNames == { <<"l", "s", "h", "i", "f", "t">> }
RShiftNames == { <<"r", "s", "h", "i", "f", "t">> }

DocumentedModifierNames ==
    ControlNames \cup ShiftNames \cup AltNames \cup MetaNames
      \cup LControlNames \cup RControlNames \cup LShiftNames \cup RShiftNames

DocumentedModifier(m) ==
    CASE m \in ControlNames -> "Control"
      [] m \in ShiftNames -> "Shift"
      [] m \in AltNames -> "Alt"
      [] m \in MetaNames -> "Meta"
      [] m \in LControlNames -> "LControl"
      [] m \in RControlNames -> "RControl"
      [] m \in LShiftNames -> "LShift"
      [] m \in RShiftNames -> "RShift"

\* The body is the word w (any case), one space and a documented modifier name.
IsModifierCommand(body, w) ==
    /\ HasArg(body)
    /\ NameOf(body) = w
    /\ ArgOf(body) \in DocumentedModifierNames

ChordDown == <<"K", "e", "y", "D", "o", "w", "n", " ", "C", "t", "r", "l">>
ChordUp == <<"K", "e", "y", "U", "p", " ", "C", "t", "r", "l">>

\* C27: for each of the fifteen modifier names m, {KeyDown m} parses to
\* KeyDown(mod(m)) and {KeyUp m} to KeyUp(mod(m)), with meta, win, cmd,
\* command and super all the Meta modifier; and "{KeyDown Ctrl}c{KeyUp Ctrl}"
\* gives [KeyDown(Control), Text("c"), KeyUp(Control)] in that order.
C27_ModifierCommands ==
    /\ (ParseDone /\ recipe.kind = "cmd"
          /\ IsModifierCommand(recipe.body, WordKeyDown)) =>
          parse_segments
            = TextIf(recipe.pre)
                \o << KeyDown(DocumentedModifier(ArgOf(recipe.body))) >>
                \o TextIf(recipe.post)
    /\ (ParseDone /\ recipe.kind = "cmd"
          /\ IsModifierCommand(recipe.body, WordKeyUp)) =>
          parse_segments
            = TextIf(recipe.pre)
                \o << KeyUp(DocumentedModifier(ArgOf(recipe.body))) >>
                \o TextIf(recipe.post)
    /\ (ParseDone /\ recipe.kind = "pair"
          /\ recipe.body = ChordDown /\ recipe.body2 = ChordUp) =>
          parse_segments
            = TextIf(recipe.pre)
                \o << KeyDown("Control") >>
                \o TextIf(recipe.mid)
                \o << KeyUp("Control") >>
                \o TextIf(recipe.post)

\* "{KeyDown Ctrl}c{KeyUp Ctrl}" has been parsed.
C27_Witness ==
    /\ ParseDone
    /\ input = Braced(ChordDown) \o <<"c">> \o Braced(ChordUp)
    /\ parse_segments
         = << KeyDown("Control"), Text(<<"c">>), KeyUp("Control") >>
\* ---------------------------------------------------------------------------
\* Letter case of command names
\* ---------------------------------------------------------------------------

\* b is the lowercase text l with the case of some of its letters changed.
CaseVariantOf(b, l) ==
    /\ Len(b) = Len(l)
    /\ \A k \in 1..Len(l) : b[k] = l[k] \/ b[k] = ToUpperChar(l[k])

\* Recognized command bodies in lowercase, and the segment each parses to.
LowercaseCommands ==
    { << n, SpecialKey(DocumentedKey(n)) >> : n \in DocumentedKeyNames }
    \cup { << WordKeyDown \o <<" ">> \o m, KeyDown(DocumentedModifier(m)) >> :
             m \in DocumentedModifierNames }
    \cup { << WordKeyUp \o <<" ">> \o m, KeyUp(DocumentedModifier(m)) >> :
             m \in DocumentedModifierNames }
    \cup { << WordDelay \o <<" ", "5">>, Delay(5) >>, << WordPaste, Paste >> }

\* C28: a recognized command body written with any letter case in its command
\* name (and in the modifier name of keydown and keyup) parses to the same
\* segment as its lowercase form.
C28_CaseInsensitive ==
    (ParseDone /\ recipe.kind = "cmd") =>
        \A p \in LowercaseCommands :
            CaseVariantOf(recipe.body, p[1]) =>
                parse_segments
                  = TextIf(recipe.pre) \o << p[2] >> \o TextIf(recipe.post)

\* "{kEyDoWn shift}" has been parsed to the segment of "{keydown shift}".
C28_Witness ==
    /\ ParseDone
    /\ input = Braced(<<"k", "E", "y", "D", "o", "W", "n", " ",
                         "s", "h", "i", "f", "t">>)
    /\ parse_segments = << KeyDown("Shift") >>
\* ---------------------------------------------------------------------------
\* Unclosed brace
\* ---------------------------------------------------------------------------

\* The characters of the input from position k to the end.
TailFrom(k) == SubSeq(input, k, Len(input))

\* The loop, started at position pos, takes its next character at position
\* k at some point: "{{" and "}}" are taken two characters at a time, a '{'
\* with a '}' after it up to and including that '}', anything else alone.
RECURSIVE TakenAt(_, _)
TakenAt(pos, k) ==
    IF pos >= k THEN pos = k
    ELSE IF input[pos] = "{" /\ input[pos + 1] = "{" THEN TakenAt(pos + 2, k)
    ELSE IF input[pos] = "{"
         THEN CloseAfter(pos) # 0 /\ TakenAt(CloseAfter(pos) + 1, k)
    ELSE IF input[pos] = "}" /\ input[pos + 1] = "}" THEN TakenAt(pos + 2, k)
    ELSE TakenAt(pos + 1, k)

\* Position k holds a '{' that does not start "{{" and has no '}' after it.
UnclosedOpenAt(k) ==
    /\ input[k] = "{"
    /\ ~(k < Len(input) /\ input[k + 1] = "{")
    /\ \A j \in (k + 1)..Len(input) : input[j] # "}"
    /\ TakenAt(1, k)

\* s ends with t.
EndsWith(s, t) ==
    Len(t) <= Len(s) /\ SubSeq(s, Len(s) - Len(t) + 1, Len(s)) = t

\* C29: when the loop reaches a '{' that does not start "{{" and has no '}'
\* after it, that '{' and every character after it go to the literal text,
\* character for character, and no segment is made from them: the step appends
\* exactly the rest of the input to the pending text, and the result ends with
\* a Text whose text ends with that tail.
C29_UnclosedLiteral ==
    /\ [][(AtCommandOpen /\ CloseAfter(chars + 1) = 0)
            => /\ current_text' = current_text \o TailFrom(chars + 1)
               /\ parse_segments' = parse_segments
               /\ chars' = Len(input)
               /\ parse_pc' = "loop"]_vars
    /\ [](ParseDone =>
            \A k \in 1..Len(input) :
                UnclosedOpenAt(k) =>
                    /\ parse_segments # <<>>
                    /\ IsText(parse_segments[Len(parse_segments)])
                    /\ EndsWith(parse_segments[Len(parse_segments)].text,
                                TailFrom(k)))

\* "{up}{a" has been parsed: the key, then the unclosed tail as text.
C29_Witness ==
    /\ ParseDone
    /\ input = <<"{", "u", "p", "}", "{", "a">>
    /\ parse_segments = << SpecialKey("UpArrow"), Text(<<"{", "a">>) >>
\* ---------------------------------------------------------------------------
\* {Paste}
\* ---------------------------------------------------------------------------

\* Some segment of the result is Paste.
HasPaste(segs) == \E k \in 1..Len(segs) : segs[k] = Paste

\* The body is the word paste (any case) with nothing but blanks after it.
IsBarePaste(body) ==
    /\ NameOf(body) = WordPaste
    /\ HasArg(body) => Trim(ArgOf(body)) = <<>>

\* The body is the word paste (any case), a space and an argument.
IsPasteWithArgument(body) ==
    /\ HasArg(body)
    /\ NameOf(body) = WordPaste
    /\ Trim(ArgOf(body)) # <<>>

\* C30: a Paste segment is produced exactly for a command body that is the
\* name paste (in any letter case) with no argument; a body that is the name
\* paste, a space and an argument is no command and falls back to literal
\* text.
C30_PasteOnlyBare ==
    (ParseDone /\ recipe.kind = "cmd") =>
        /\ HasPaste(parse_segments) <=> IsBarePaste(recipe.body)
        /\ IsPasteWithArgument(recipe.body) =>
              parse_segments = << Text(input) >>
\* ---------------------------------------------------------------------------
\* The slices of cancellable_sleep
\* ---------------------------------------------------------------------------

\* C31: every slice of an interruptible sleep of sleep_ms lasts
\* min(50, what is left of sleep_ms), so the time slept never exceeds sleep_ms
\* and a sleep that runs to its end has lasted exactly sleep_ms.
C31_SliceIsMinOfRemaining ==
    /\ [][(pc = "slice" /\ pc' = "sleep")
            => elapsed' - elapsed = Min(50, sleep_ms - elapsed)]_vars
    /\ [](pc \in {"sleep", "slice"} => elapsed <= sleep_ms)
    /\ [][(pc = "sleep" /\ pc' = "loop") => elapsed = sleep_ms]_vars
\* ---------------------------------------------------------------------------
\* The pacing rule
\* ---------------------------------------------------------------------------

\* The worker is in (or enters) the pacing sleep.
InPacingSleep == pc \in {"sleep", "slice"} /\ sleep_kind = "pacing"

\* C32: with a pacing delay above 0 the worker enters a pacing sleep (of the
\* pacing delay) after an Inject it has sent exactly when that segment is not
\* the last element of the expanded sequence, Delay segments counted; a
\* pacing sleep begins nowhere else, so none follows a Delay segment; and with
\* pacing delay 0 there is never a pacing sleep.
C32_PacingRule ==
    /\ [][(pc = "send" /\ pc' # "send" /\ rx_alive)
            => /\ InPacingSleep' <=> (delay_ms > 0 /\ i + 1 < Len(expanded))
               /\ InPacingSleep' => (sleep_ms' = delay_ms /\ elapsed' = 0)
               /\ ~InPacingSleep' => (pc' = "loop" /\ i' = i + 1)]_vars
    /\ [][(~InPacingSleep /\ InPacingSleep')
            => (pc = "send" /\ ~IsDelay(expanded[i + 1])
                  /\ emitted' = Append(emitted, Inject(expanded[i + 1])))]_vars
    /\ [][(pc \in {"sleep", "slice"} /\ sleep_kind = "delay")
            => ~InPacingSleep']_vars
    /\ [](delay_ms = 0 => ~InPacingSleep)

\* The worker is in the pacing sleep after the segment before a final Delay.
C32_Witness ==
    /\ InPacingSleep
    /\ pc = "sleep"
    /\ delay_ms > 0
    /\ Len(expanded) >= 2
    /\ i = Len(expanded) - 2
    /\ IsDelay(expanded[Len(expanded)])
\* ---------------------------------------------------------------------------
\* Commands after stop()
\* ---------------------------------------------------------------------------

\* What the worker handed to tx.send after the first stop() had returned.
EmittedAfterStop == SubSeq(emitted, stop_point.sent + 1, Len(emitted))

\* C33: once stop() has returned the worker sends at most one more Inject,
\* the one of the segment whose check it had passed when the flag was set
\* (it was about to send it), and after that only its terminal command.
C33_OneInjectAfterStop ==
    /\ [](stop_flag =>
            /\ Len(Payloads(EmittedAfterStop)) <= 1
            /\ Len(EmittedAfterStop) <= 2
            /\ \A k \in 1..Len(EmittedAfterStop) :
                  IsInject(EmittedAfterStop[k]) =>
                    /\ k = 1
                    /\ stop_point.pc = "send"
                    /\ EmittedAfterStop[k]
                         = Inject(expanded[stop_point.i + 1]))
    /\ [][(stop_flag /\ emitted' # emitted /\ IsInject(Last(emitted')))
            => (pc = "send" /\ stop_point.pc = "send" /\ stop_point.i = i)]_vars

\* stop() was called between the check and the send of the first of two
\* segments: that one Inject, then Cancelled.
C33_Witness ==
    /\ stop_flag
    /\ pc = "done"
    /\ stop_point.pc = "send"
    /\ stop_point.sent = 0
    /\ segments = << SpecialKey("Return"), SpecialKey("Return") >>
    /\ emitted = << Inject(SpecialKey("Return")), Cancelled >>
\* ---------------------------------------------------------------------------
\* The flag set before the first segment
\* ---------------------------------------------------------------------------

\* stop() set the flag before the worker had made its first check.
StoppedBeforeFirstCheck ==
    /\ stop_point.pc \in {"spawned", "loop"}
    /\ stop_point.i = 0

\* C34: when the flag is set before the worker examines its first segment,
\* the worker sends no Inject, and the one command it sends is Cancelled when
\* the expanded macro has a segment and Complete when it has none.
C34_StoppedBeforeStart ==
    StoppedBeforeFirstCheck =>
      /\ Payloads(emitted) = <<>>
      /\ Len(emitted) <= 1
      /\ pc \notin {"send", "sleep", "slice"}
      /\ WorkerFinished =>
            emitted = << IF Len(expanded) >= 1 THEN Cancelled ELSE Complete >>

\* The flag was set before the thread ran and the macro, one empty Text paced
\* at 70 ms, expanded to nothing: the worker has sent Complete.
C34_Witness ==
    /\ StoppedBeforeFirstCheck
    /\ stop_point.pc = "spawned"
    /\ pc = "done"
    /\ segments = << Text(<<>>) >>
    /\ delay_ms = 70
    /\ expanded = <<>>
    /\ emitted = << Complete >>
\* ---------------------------------------------------------------------------
\* Triggers
\* ---------------------------------------------------------------------------

\* A step that starts an execution, synchronous or with a worker.
StartsRun == Len(runs') > Len(runs)

\* C35: a trigger that arrives while an execution handle is held, or while
\* playback is disabled, starts nothing (no run, no flag, no channel, nothing
\* asked of the injector) and leaves the handle, the receiver and the
\* Prepared flag as they were; an execution starts only from a state with no
\* handle held and playback enabled.
C35_IgnoredTriggers ==
    /\ [][StartsRun => (active_execution = 0 /\ enabled)]_vars
    /\ [][ignored' # ignored
            => /\ ignored' = IF ~enabled THEN "disabled" ELSE "busy"
               /\ ignored' = "busy" => active_execution # 0
               /\ UNCHANGED << runs, flags, chans, active_execution,
                               execution_rx, execution_prepared, sink >>]_vars
    /\ [](ignored \in {"none", "disabled", "busy"})

\* A trigger was ignored while the run was active and its worker had
\* commands waiting.
C35_Witness ==
    /\ ignored = "busy"
    /\ active_execution # 0
    /\ execution_rx # 0
    /\ chans[execution_rx].q # <<>>
    /\ Len(runs) = 1
\* ---------------------------------------------------------------------------
\* Handle, receiver and Prepared flag together
\* ---------------------------------------------------------------------------

\* C36: in every reachable state of the application the execution handle
\* and the command receiver are both present or both absent, and the Prepared
\* flag is false whenever they are absent (states between two handler calls
\* of the event loop).
C36_HandleAndReceiverTogether ==
    app_pc = "loop" =>
        /\ (active_execution = 0) <=> (execution_rx = 0)
        /\ active_execution = 0 => ~execution_prepared
\* ---------------------------------------------------------------------------
\* Every run comes back to Idle
\* ---------------------------------------------------------------------------

\* C37: while the event loop keeps calling about_to_wait (it has not
\* exited), a started execution is always followed by a state with no active
\* handle, whether or not stop() is called: through Complete, Cancelled, an
\* injection failure, or the handle being taken by Quit.
C37_RunReturnsToIdle ==
    (active_execution # 0) ~> (active_execution = 0 \/ app_pc = "exited")

\* A worker's run has been completed and the consumer is idle again, with
\* no stop() ever called and the application still running.
C37_Witness ==
    /\ active_execution = 0
    /\ execution_rx = 0
    /\ app_pc = "loop"
    /\ ~should_exit
    /\ Len(runs) >= 1
    /\ runs[1].kind = "async"
    /\ runs[1].handled = "Complete"
    /\ ~runs[1].stopped
\* ---------------------------------------------------------------------------
\* The fast path
\* ---------------------------------------------------------------------------

\* The run started by this step.
Started == runs'[Len(runs')]

\* C38: a triggered macro runs synchronously (no worker: no Stop Flag, no
\* channel, no handle or receiver stored, everything asked of the injector
\* within the trigger itself) exactly when its pacing delay is 0, it has at
\* most 10 segments and none of them is a Delay; every other macro gets a
\* worker, and its handle and receiver are stored with the Prepared flag
\* false.
C38_FastPathIff ==
    [][StartsRun =>
        LET r == Started
            short == /\ r.delay_ms = 0
                     /\ Len(r.segments) <= 10
                     /\ \A k \in 1..Len(r.segments) :
                           r.segments[k].type # "Delay"
        IN  /\ Len(runs') = Len(runs) + 1
            /\ (r.kind = "sync") <=> short
            /\ r.kind \in {"sync", "async"}
            /\ r.kind = "sync" =>
                  /\ r.pc = "done" /\ r.handle = "none"
                  /\ UNCHANGED << flags, chans, active_execution,
                                  execution_rx, execution_prepared >>
                  /\ Len(sink') > Len(sink)
            /\ r.kind = "async" =>
                  /\ Len(flags') = Len(flags) + 1
                  /\ Len(chans') = Len(chans) + 1
                  /\ r.flag = Len(flags') /\ ~flags'[r.flag]
                  /\ r.tx = Len(chans') /\ chans'[r.tx].rx_alive
                  /\ r.handle = "held" /\ r.pc # "done"
                  /\ active_execution' = Len(runs')
                  /\ execution_rx' = r.tx
                  /\ execution_prepared' = FALSE
                  /\ sink' = sink]_vars

\* Eleven keys without pacing have been given to a worker.
C38_Witness ==
    /\ Len(runs) = 1
    /\ runs[1].kind = "async"
    /\ runs[1].delay_ms = 0
    /\ Len(runs[1].segments) = 11
    /\ active_execution = 1
    /\ execution_rx = 1
    /\ ~execution_prepared

\* ---- Global hotkeys (src/src/hotkey.rs) ---------------------------------

MaxCandidates == 2

MaxCount == 2

\* candidate_hotkeys(), lines 145-172: the hotkeys tried for suggestions, in
\* the order they are tried.
candidate_hotkeys == [k \in 1..MaxCandidates |-> k]

\* The candidates and one hotkey (number 0) that is not a candidate.
HotKeys == 0..MaxCandidates

\* macro_id: the name of the macro a hotkey is bound to.
MacroIds == { "m1", "m2" }

\* (the lookup never finds the key)
contains_key_never(b, id) == FALSE

\* self.bindings.contains_key(&id), lines 50 and 117.
contains_key(b, id) == id \in DOMAIN b

\* self.bindings.insert(id, HotkeyBinding { hotkey, macro_id }), line 60.
insert(b, id, m) ==
    [k \in DOMAIN b \cup {id} |-> IF k = id THEN m ELSE b[k]]

OsCall(name, h, res) == [call |-> name, hotkey |-> h, result |-> res]

\* GlobalHotKeyManager::register as lines 58-76 tell its outcomes apart:
\* AlreadyRegistered for a hotkey this process holds, FailedToRegister for
\* one the system or another application holds, any other error, or Ok.
OsRegister(reg, taken, h, fault) ==
    IF h \in reg THEN [result |-> "AlreadyRegistered", manager |-> reg]
    ELSE IF h \in taken THEN [result |-> "FailedToRegister", manager |-> reg]
    ELSE IF fault THEN [result |-> "OsError", manager |-> reg]
    ELSE [result |-> "Ok", manager |-> reg \cup {h}]

\* GlobalHotKeyManager::unregister, lines 97-101: an error if the hotkey was
\* not registered.
OsUnregister(reg, h) ==
    IF h \in reg THEN [result |-> "Ok", manager |-> reg \ {h}]
    ELSE [result |-> "FailedToUnregister", manager |-> reg]

\* try_register, lines 48-77.
TryRegisterStep(b, reg, taken, h, m, fault) ==
    IF contains_key(b, h)
    THEN [result |-> "ConflictInternal", bindings |-> b, manager |-> reg,
          os |-> <<>>]
    ELSE LET r == OsRegister(reg, taken, h, fault)
         IN  [result |-> CASE r.result = "Ok" -> "Success"
                           [] r.result = "AlreadyRegistered" ->
                                  "ConflictInternal"
                           [] r.result = "FailedToRegister" ->
                                  "ConflictExternal"
                           [] OTHER -> "Error",
              bindings |-> IF r.result = "Ok" THEN insert(b, h, m) ELSE b,
              manager |-> r.manager,
              os |-> << OsCall("register", h, r.result) >>]

\* suggest_available, lines 114-138: the for loop from candidate number
\* st.k on.
RECURSIVE SuggestLoop(_, _, _, _, _)
SuggestLoop(st, b, taken, faults, count) ==
    IF st.k > Len(candidate_hotkeys) THEN st
    ELSE LET candidate == candidate_hotkeys[st.k]
             r == OsRegister(st.manager, taken, candidate,
                             candidate \in faults)
             u == OsUnregister(r.manager, candidate)
             pushed == [k |-> st.k + 1,
                        suggestions |-> Append(st.suggestions, candidate),
                        manager |-> u.manager,
                        os |-> st.os \o
                               << OsCall("register", candidate, r.result),
                                  OsCall("unregister", candidate,
                                         u.result) >>]
         IN  IF contains_key(b, candidate)
             THEN SuggestLoop([st EXCEPT !.k = @ + 1], b, taken, faults,
                              count)
             ELSE IF r.result = "Ok"
             THEN IF Len(pushed.suggestions) >= count
                  THEN pushed
                  ELSE SuggestLoop(pushed, b, taken, faults, count)
             ELSE SuggestLoop(
                      [st EXCEPT !.k = @ + 1,
                                 !.os = Append(@, OsCall("register",
                                                   candidate, r.result))],
                      b, taken, faults, count)

\* HotkeyManager::try_register(hotkey, macro_id).
TryRegister(h, m, fault) ==
    LET r == TryRegisterStep(bindings, manager, os_taken, h, m, fault)
    IN  /\ bindings' = r.bindings
        /\ manager' = r.manager
        /\ hk_last' = [NoCall EXCEPT !.op = "try_register", !.hotkey = h,
                                     !.result = r.result, !.os = r.os]
        /\ UNCHANGED << engineVars, parseVars, runs, flags, chans,
                        active_execution, execution_rx, execution_prepared,
                        should_exit, app_pc, sink, enabled, ignored,
                        os_taken >>

\* HotkeyManager::register(hotkey, macro_id), lines 82-89: try_register,
\* with every result but Success turned into Err.
Register(h, m, fault) ==
    LET r == TryRegisterStep(bindings, manager, os_taken, h, m, fault)
    IN  /\ bindings' = r.bindings
        /\ manager' = r.manager
        /\ hk_last' = [NoCall EXCEPT
                          !.op = "register", !.hotkey = h,
                          !.result = IF r.result = "Success" THEN "Ok"
                                     ELSE "Err",
                          !.os = r.os]
        /\ UNCHANGED << engineVars, parseVars, runs, flags, chans,
                        active_execution, execution_rx, execution_prepared,
                        should_exit, app_pc, sink, enabled, ignored,
                        os_taken >>

\* HotkeyManager::register_raw(hotkey), lines 92-94.
RegisterRaw(h) ==
    LET r == OsRegister(manager, os_taken, h, FALSE)
    IN  /\ manager' = r.manager
        /\ hk_last' = [NoCall EXCEPT
                          !.op = "register_raw", !.hotkey = h,
                          !.result = r.result,
                          !.os = << OsCall("register", h, r.result) >>]
        /\ UNCHANGED << engineVars, parseVars, runs, flags, chans,
                        active_execution, execution_rx, execution_prepared,
                        should_exit, app_pc, sink, enabled, ignored,
                        bindings, os_taken >>

\* HotkeyManager::unregister(hotkey), lines 99-104: the `?` returns before
\* the binding is removed when the OS call failed.
Unregister(h) ==
    LET u == OsUnregister(manager, h)
    IN  /\ manager' = u.manager
        /\ bindings' = IF u.result = "Ok"
                       THEN [k \in DOMAIN bindings \ {h} |-> bindings[k]]
                       ELSE bindings
        /\ hk_last' = [NoCall EXCEPT
                          !.op = "unregister", !.hotkey = h,
                          !.result = IF u.result = "Ok" THEN "Ok" ELSE "Err",
                          !.os = << OsCall("unregister", h, u.result) >>]
        /\ UNCHANGED << engineVars, parseVars, runs, flags, chans,
                        active_execution, execution_rx, execution_prepared,
                        should_exit, app_pc, sink, enabled, ignored,
                        os_taken >>

\* HotkeyManager::get_macro_id(hotkey_id), lines 107-109.
GetMacroId(h) ==
    /\ hk_last' = [NoCall EXCEPT
                      !.op = "get_macro_id", !.hotkey = h,
                      !.result = IF contains_key(bindings, h)
                                 THEN bindings[h] ELSE "None"]
    /\ UNCHANGED << engineVars, parseVars, runs, flags, chans,
                    active_execution, execution_rx, execution_prepared,
                    should_exit, app_pc, sink, enabled, ignored,
                    bindings, manager, os_taken >>

\* HotkeyManager::suggest_available(count); the candidates in faults fail
\* to register for a reason of the operating system's.
SuggestAvailable(count, faults) ==
    LET r == SuggestLoop([k |-> 1, suggestions |-> <<>>,
                          manager |-> manager, os |-> <<>>],
                         bindings, os_taken, faults, count)
    IN  /\ manager' = r.manager
        /\ hk_last' = [NoCall EXCEPT
                          !.op = "suggest_available", !.count = count,
                          !.result = "Vec",
                          !.suggestions = r.suggestions, !.os = r.os]
        /\ UNCHANGED << engineVars, parseVars, runs, flags, chans,
                        active_execution, execution_rx, execution_prepared,
                        should_exit, app_pc, sink, enabled, ignored,
                        bindings, os_taken >>

\* Another application, or the system, takes a hotkey nobody holds, or
\* gives up one it held.
OtherApp(h) ==
    /\ h \notin manager
    /\ os_taken' = IF h \in os_taken THEN os_taken \ {h}
                   ELSE os_taken \cup {h}
    /\ UNCHANGED << engineVars, parseVars, runs, flags, chans,
                    active_execution, execution_rx, execution_prepared,
                    should_exit, app_pc, sink, enabled, ignored,
                    bindings, manager, hk_last >>

NextHotkey ==
    \/ \E h \in HotKeys, m \in MacroIds, fault \in BOOLEAN :
           TryRegister(h, m, fault)
    \/ \E h \in HotKeys, m \in MacroIds, fault \in BOOLEAN :
           Register(h, m, fault)
    \/ \E h \in HotKeys : RegisterRaw(h)
    \/ \E h \in HotKeys : Unregister(h)
    \/ \E h \in HotKeys : GetMacroId(h)
    \/ \E count \in 0..MaxCount, faults \in SUBSET (1..MaxCandidates) :
           SuggestAvailable(count, faults)
    \/ \E h \in HotKeys : OtherApp(h)

SpecHotkey == InitApp /\ [][NextHotkey]_vars


\* ---- Properties of the hotkey manager -----------------------------------

\* The one OS call of a registration, when it was made and succeeded.
OsSucceeded(os, h) == os = << OsCall("register", h, "Ok") >>

\* C39: try_register of a hotkey whose id is already in the bindings returns
\* ConflictInternal, makes no call of the OS registrar and leaves the
\* bindings unchanged; try_register and register add a binding (that of the
\* hotkey to the macro, and no other) only when the OS registration
\* succeeded, and leave the bindings unchanged whenever it did not.
C39_BindingNeedsOsSuccess ==
    [][\A h \in { hk_last'.hotkey }, m \in MacroIds, fault \in BOOLEAN :
           (TryRegister(h, m, fault) \/ Register(h, m, fault)) =>
               /\ h \in DOMAIN bindings =>
                      /\ hk_last'.os = <<>>
                      /\ bindings' = bindings
                      /\ manager' = manager
                      /\ hk_last'.result \in { "ConflictInternal", "Err" }
               /\ ~OsSucceeded(hk_last'.os, h) =>
                      /\ bindings' = bindings
                      /\ hk_last'.result \notin { "Success", "Ok" }
               /\ OsSucceeded(hk_last'.os, h) =>
                      /\ h \notin DOMAIN bindings
                      /\ bindings' = insert(bindings, h, m)
                      /\ hk_last'.result \in { "Success", "Ok" }]_vars

\* try_register has just refused a hotkey that is bound, and a registration
\* of another hotkey had failed at the operating system before.
C39_Witness ==
    /\ hk_last.op = "try_register"
    /\ hk_last.hotkey \in DOMAIN bindings
    /\ hk_last.result = "ConflictInternal"
    /\ hk_last.os = <<>>
    /\ os_taken # {}

\* C40: suggest_available(count) returns at most count hotkeys for every
\* count >= 0, none of them bound by the manager, and leaves the bindings
\* and the hotkeys registered with the operating system as they were.
C40_SuggestAtMostCount ==
    [][\A count \in { hk_last'.count },
          faults \in SUBSET (1..MaxCandidates) :
           SuggestAvailable(count, faults) =>
               /\ Len(hk_last'.suggestions) <= count
               /\ \A k \in 1..Len(hk_last'.suggestions) :
                      hk_last'.suggestions[k] \notin DOMAIN bindings
               /\ bindings' = bindings
               /\ manager' = manager
               /\ os_taken' = os_taken]_vars

====
